---- MODULE Spec2Model ----
(***************************************************************************)
(* Model of the tensor transfer core of x10 (xla_tensor/tensor_util.cpp):  *)
(* the type mapper, the shape and stride utilities, and the strided,       *)
(* multi-threaded copy engine CopyTensors.                                 *)
(*                                                                         *)
(* Arrays of the source (std::vector, absl::Span, buffers) are modelled as *)
(* functions over 0..n-1 so that dimension numbers and flat offsets are    *)
(* the source's own.                                                       *)
(***************************************************************************)
EXTENDS Integers, Sequences, FiniteSets, TLC

(***************************************************************************)
(* Bounds of the model.                                                    *)
(***************************************************************************)
\* Largest rank of a shape.
MaxRank == 3
\* Largest size of one dimension of a shape.
MaxDim == 3
\* Largest number of elements of a copied shape.
MaxElements == 6
\* Largest value returned by std::thread::hardware_concurrency().
MaxHardwareConcurrency == 4
\* Largest number of components of a tuple shape.
MaxTuple == 3
\* A scaled-down minimum number of elements per copy task.  With the
\* program's kMinThreadElements a copy is split only above 100000 elements;
\* the partitioning is also run with this small threshold so that shapes of
\* a few elements are split the way large ones are.
ScaledMinThreadElements == 2

(***************************************************************************)
(* Generic helpers for 0-based arrays.                                     *)
(***************************************************************************)
Size(a) == Cardinality(DOMAIN a)

EmptyArr == [i \in {} |-> 0]

Max2(a, b) == IF a >= b THEN a ELSE b

Min2(a, b) == IF a <= b THEN a ELSE b

\* xla::util::Multiply over a dimension array.
RECURSIVE MultiplyFrom(_, _)
MultiplyFrom(a, i) == IF i >= Size(a) THEN 1 ELSE a[i] * MultiplyFrom(a, i + 1)

Multiply(a) == MultiplyFrom(a, 0)

\* All permutations of 0..r-1, as 0-based arrays.
Perms(r) == {p \in [0..(r - 1) -> 0..(r - 1)] :
               \A i, j \in 0..(r - 1) : i # j => p[i] # p[j]}

(***************************************************************************)
(* Type mapper.                                                            *)
(***************************************************************************)
\* at::ScalarType values handled by the switches; "Undefined" stands for any
\* other enumerator (it reaches the default branches).
SupportedScalarTypes ==
  {"Bool", "Byte", "Char", "Short", "Int", "Long", "Float", "Double", "BFloat16"}

ScalarTypes == SupportedScalarTypes \cup {"Undefined"}

\* xla::PrimitiveType
PrimitiveTypes ==
  {"PRED", "S8", "S16", "S32", "S64", "U8", "U16", "U32", "U64",
   "F16", "F32", "F64", "BF16", "C64", "C128", "TUPLE", "OPAQUE_TYPE", "TOKEN",
   "PRIMITIVE_TYPE_INVALID"}

\* swift_xla::DeviceType
DeviceTypes == {"CPU", "GPU", "TPU", "REMOTE_TPU"}

TypeUnsupported == "TypeUnsupported"

\* A plausible slip: Double narrowed to F32 on every device.
XlaTypeFromTensorType_DoubleAsF32(scalar_type, hw_type) ==
  CASE scalar_type = "Double" -> "F32"
    [] scalar_type = "Float" -> "F32"
    [] scalar_type = "BFloat16" -> "BF16"
    [] scalar_type = "Bool" -> "PRED"
    [] scalar_type = "Byte" -> "U8"
    [] scalar_type = "Char" -> "S8"
    [] scalar_type = "Short" -> "S16"
    [] scalar_type = "Int" -> "S32"
    [] scalar_type = "Long" -> "S64"
    [] OTHER -> "TypeUnsupported"

\* XlaTypeFromTensorType (anonymous namespace): no global toggle is read.
XlaTypeFromTensorType(scalar_type, hw_type) ==
  CASE scalar_type = "Double" -> IF hw_type # "TPU" THEN "F64" ELSE "F32"
    [] scalar_type = "Float" -> "F32"
    [] scalar_type = "BFloat16" -> "BF16"
    [] scalar_type = "Bool" -> "PRED"
    [] scalar_type = "Byte" -> "U8"
    [] scalar_type = "Char" -> "S8"
    [] scalar_type = "Short" -> "S16"
    [] scalar_type = "Int" -> "S32"
    [] scalar_type = "Long" -> "S64"
    [] OTHER -> TypeUnsupported

\* A plausible slip: the BF16 case returns without the fall-through to Float.
TensorTypeFromXlaType_NoFallthrough(xla_type, use_bf16) ==
  CASE xla_type = "BF16" -> "BFloat16"
    [] xla_type = "F32" -> "Float"
    [] xla_type = "F64" -> "Double"
    [] xla_type = "PRED" -> "Bool"
    [] xla_type = "U8" -> "Byte"
    [] xla_type = "S8" -> "Char"
    [] xla_type \in {"S16", "U16"} -> "Short"
    [] xla_type \in {"S32", "U32"} -> "Int"
    [] xla_type \in {"S64", "U64"} -> "Long"
    [] OTHER -> TypeUnsupported

\* TensorTypeFromXlaType; use_bf16 is the value UseBF16() returns.
TensorTypeFromXlaType(xla_type, use_bf16) ==
  CASE xla_type = "BF16" -> IF ~use_bf16 THEN "BFloat16" ELSE "Float"
    [] xla_type = "F32" -> "Float"
    [] xla_type = "F64" -> "Double"
    [] xla_type = "PRED" -> "Bool"
    [] xla_type = "U8" -> "Byte"
    [] xla_type = "S8" -> "Char"
    [] xla_type \in {"S16", "U16"} -> "Short"
    [] xla_type \in {"S32", "U32"} -> "Int"
    [] xla_type \in {"S64", "U64"} -> "Long"
    [] OTHER -> TypeUnsupported

TensorTypeToRawXlaType(scalar_type) ==
  CASE scalar_type = "Double" -> "F64"
    [] scalar_type = "Float" -> "F32"
    [] scalar_type = "BFloat16" -> "BF16"
    [] scalar_type = "Bool" -> "PRED"
    [] scalar_type = "Byte" -> "U8"
    [] scalar_type = "Char" -> "S8"
    [] scalar_type = "Short" -> "S16"
    [] scalar_type = "Int" -> "S32"
    [] scalar_type = "Long" -> "S64"
    [] OTHER -> TypeUnsupported

\* A plausible slip: the TPU test written for any accelerator.
GetDevicePrimitiveType_AnyTpu(type, hw_type, use_bf16, use_32bit_long) ==
  LET tpu == hw_type \in {"TPU", "REMOTE_TPU"} IN
  CASE type = "F64" -> IF use_bf16 THEN "BF16" ELSE IF ~tpu THEN "F64" ELSE "F32"
    [] type = "F32" -> IF use_bf16 THEN "BF16" ELSE "F32"
    [] type = "U8" -> IF ~tpu THEN "U8" ELSE "U32"
    [] type = "S8" -> IF ~tpu THEN "S8" ELSE "S32"
    [] type = "U16" -> IF ~tpu THEN "U16" ELSE "U32"
    [] type = "S16" -> IF ~tpu THEN "S16" ELSE "S32"
    [] type = "S64" -> IF use_32bit_long THEN "S32" ELSE "S64"
    [] type = "U64" -> IF use_32bit_long THEN "U32" ELSE "U64"
    [] type = "C128" -> IF ~tpu THEN "C128" ELSE "C64"
    [] OTHER -> type

\* GetDevicePrimitiveType; hw_type is GetDeviceOrCurrent(device).hw_type and
\* use_bf16 / use_32bit_long the values UseBF16() / Use32BitLong() return.
GetDevicePrimitiveType(type, hw_type, use_bf16, use_32bit_long) ==
  CASE type = "F64" ->
         IF use_bf16 THEN "BF16" ELSE IF hw_type # "TPU" THEN "F64" ELSE "F32"
    [] type = "F32" -> IF use_bf16 THEN "BF16" ELSE "F32"
    [] type = "U8" -> IF hw_type # "TPU" THEN "U8" ELSE "U32"
    [] type = "S8" -> IF hw_type # "TPU" THEN "S8" ELSE "S32"
    [] type = "U16" -> IF hw_type # "TPU" THEN "U16" ELSE "U32"
    [] type = "S16" -> IF hw_type # "TPU" THEN "S16" ELSE "S32"
    [] type = "S64" -> IF use_32bit_long THEN "S32" ELSE "S64"
    [] type = "U64" -> IF use_32bit_long THEN "U32" ELSE "U64"
    [] type = "C128" -> IF hw_type # "TPU" THEN "C128" ELSE "C64"
    [] OTHER -> type

MakeXlaPrimitiveType(scalar_type, hw_type, use_bf16, use_32bit_long) ==
  CASE scalar_type = "Double" ->
         GetDevicePrimitiveType("F64", hw_type, use_bf16, use_32bit_long)
    [] scalar_type = "Float" ->
         GetDevicePrimitiveType("F32", hw_type, use_bf16, use_32bit_long)
    [] scalar_type = "BFloat16" ->
         GetDevicePrimitiveType("BF16", hw_type, use_bf16, use_32bit_long)
    [] scalar_type = "Bool" ->
         GetDevicePrimitiveType("PRED", hw_type, use_bf16, use_32bit_long)
    [] scalar_type = "Byte" ->
         GetDevicePrimitiveType("U8", hw_type, use_bf16, use_32bit_long)
    [] scalar_type = "Char" ->
         GetDevicePrimitiveType("S8", hw_type, use_bf16, use_32bit_long)
    [] scalar_type = "Short" ->
         GetDevicePrimitiveType("S16", hw_type, use_bf16, use_32bit_long)
    [] scalar_type = "Int" ->
         GetDevicePrimitiveType("S32", hw_type, use_bf16, use_32bit_long)
    [] scalar_type = "Long" ->
         GetDevicePrimitiveType("S64", hw_type, use_bf16, use_32bit_long)
    [] OTHER -> TypeUnsupported

\* Which function-local statics a call initialises (reads through UseBF16 /
\* Use32BitLong): only the branches that call them.
ReadsBF16(type) == type \in {"F64", "F32"}

Reads32BitLong(type) == type \in {"S64", "U64"}

(***************************************************************************)
(* Element values and casts.                                               *)
(*                                                                         *)
(* A value is an integer counting halves (3 is 1.5, 2 is the integer 1),   *)
(* so that a float-to-integer cast has a fraction to truncate.  Element    *)
(* types are named by the xla::PrimitiveType whose C++ type they are       *)
(* (double for F64, int32 for S32, bfloat16 for BF16, ...).                *)
(***************************************************************************)
IsFloatType(t) == t \in {"BF16", "F32", "F64"}

IsSignedType(t) == t \in {"S8", "S16", "S32", "S64"}

IsUnsignedType(t) == t \in {"U8", "U16", "U32", "U64"}

Bits(t) ==
  CASE t \in {"PRED", "S8", "U8"} -> 8
    [] t \in {"S16", "U16", "BF16"} -> 16
    [] t \in {"S32", "U32", "F32"} -> 32
    [] t \in {"S64", "U64", "F64"} -> 64

\* sizeof(T) in bytes.
SizeOf(t) == Bits(t) \div 8

\* Significand precision of a floating type, in bits.
Precision(t) ==
  CASE t = "BF16" -> 8
    [] t = "F32" -> 24
    [] t = "F64" -> 53

Abs(x) == IF x < 0 THEN 0 - x ELSE x

\* The spacing of the floating values of precision p around magnitude a.
RECURSIVE Quantum(_, _)
Quantum(a, p) == IF p >= 31 \/ a < 2^p THEN 1 ELSE 2 * Quantum(a \div 2, p)

\* Round to nearest, ties to even, at precision p.
RoundToPrecision(x, p) ==
  LET a == Abs(x)
      q == Quantum(a, p)
      r == a % q
      lower == a - r
      upper == lower + q
      m == IF 2 * r < q THEN lower
           ELSE IF 2 * r > q THEN upper
           ELSE IF (lower \div q) % 2 = 0 THEN lower ELSE upper
  IN IF x < 0 THEN 0 - m ELSE m

\* Truncation toward zero of a value in halves, as a whole number.
Trunc(v) == IF v < 0 THEN 0 - ((0 - v) \div 2) ELSE v \div 2

\* Whole number n is representable in integer type t.  Model values stay
\* far inside the 32 and 64 bit ranges, so only the sign decides there.
InRange(t, n) ==
  CASE t = "PRED" -> n \in {0, 1}
    [] IsSignedType(t) /\ Bits(t) <= 16 ->
         n >= 0 - 2^(Bits(t) - 1) /\ n < 2^(Bits(t) - 1)
    [] IsUnsignedType(t) /\ Bits(t) <= 16 -> n >= 0 /\ n < 2^Bits(t)
    [] IsSignedType(t) -> TRUE
    [] IsUnsignedType(t) -> n >= 0

\* Integral conversion of whole number n to integer type t (modulo 2^w).
WrapInt(t, n) ==
  CASE IsUnsignedType(t) /\ Bits(t) <= 16 -> n % 2^Bits(t)
    [] IsSignedType(t) /\ Bits(t) <= 16 ->
         LET m == n % 2^Bits(t)
         IN IF m >= 2^(Bits(t) - 1) THEN m - 2^Bits(t) ELSE m
    [] OTHER -> n

\* The conversion is defined by the language and its result is a value of
\* the model: a float out of the destination's range is undefined, and a
\* negative number converted to a 32 or 64 bit unsigned type is not a model
\* value.
CastDefined(S, D, v) ==
  IF D = "PRED" \/ IsFloatType(D) THEN TRUE
  ELSE IF ~IsFloatType(S) /\ Bits(D) <= 16 THEN TRUE
  ELSE InRange(D, Trunc(v))

\* Caster<S>::cast<D>: static_cast<D>(value); a bfloat16 source is first
\* widened to float, which is exact.
Cast(S, D, v) ==
  CASE D = "PRED" -> IF v # 0 THEN 2 ELSE 0
    [] IsFloatType(D) -> RoundToPrecision(v, Precision(D))
    [] OTHER -> 2 * WrapInt(D, Trunc(v))

(***************************************************************************)
(* Shapes.                                                                 *)
(***************************************************************************)
\* xla::Shape of an array: element type, dimensions, layout; of a tuple:
\* the component shapes.
ArrayShape(element_type, dimensions, minor_to_major) ==
  [element_type |-> element_type, dimensions |-> dimensions,
   minor_to_major |-> minor_to_major, tuple_shapes |-> << >>]

TupleShape(shapes) ==
  [element_type |-> "TUPLE", dimensions |-> EmptyArr,
   minor_to_major |-> EmptyArr, tuple_shapes |-> shapes]

IsTuple(shape) == shape.element_type = "TUPLE"

Rank(shape) == Size(shape.dimensions)

\* xla::ShapeUtil::ElementsIn
ElementsIn(shape) == Multiply(shape.dimensions)

\* xla::ShapeUtil::SameDimensions
SameDimensions(lhs, rhs) == lhs.dimensions = rhs.dimensions

\* A plausible slip: row-major strides whatever the layout says.
RECURSIVE ShapeStridesLoop_RowMajor(_, _, _, _)
ShapeStridesLoop_RowMajor(shape, k, strides, stride) ==
  IF k >= Rank(shape) THEN strides
  ELSE LET dim == Rank(shape) - 1 - k
       IN ShapeStridesLoop_RowMajor(shape, k + 1,
                                    [strides EXCEPT ![dim] = stride],
                                    stride * shape.dimensions[dim])

\* The loop of ComputeShapeStrides over minor_to_major, from position k.
RECURSIVE ShapeStridesLoop(_, _, _, _)
ShapeStridesLoop(shape, k, strides, stride) ==
  IF k >= Rank(shape) THEN strides
  ELSE LET dim == shape.minor_to_major[k]
       IN ShapeStridesLoop(shape, k + 1, [strides EXCEPT ![dim] = stride],
                           stride * shape.dimensions[dim])

ComputeShapeStrides(shape) ==
  ShapeStridesLoop(shape, 0, [i \in 0..(Rank(shape) - 1) |-> 0], 1)

\* A plausible slip: the stride of an axis multiplied by that axis's own
\* size instead of the next axis's.
RECURSIVE ArrayStridesLoop_OwnSize(_, _, _)
ArrayStridesLoop_OwnSize(sizes, i, strides) ==
  IF i <= 1 THEN strides
  ELSE ArrayStridesLoop_OwnSize(sizes, i - 1,
         [strides EXCEPT ![i - 2] = strides[i - 1] * sizes[i - 2]])

\* The loop of ComputeArrayStrides, counting i down to 2.
RECURSIVE ArrayStridesLoop(_, _, _)
ArrayStridesLoop(sizes, i, strides) ==
  IF i <= 1 THEN strides
  ELSE ArrayStridesLoop(sizes, i - 1,
         [strides EXCEPT ![i - 2] = strides[i - 1] * sizes[i - 1]])

ComputeArrayStrides(sizes) ==
  ArrayStridesLoop(sizes, Size(sizes), [i \in 0..(Size(sizes) - 1) |-> 1])

\* GetFlatTensorOffset
RECURSIVE FlatOffsetFrom(_, _, _)
FlatOffsetFrom(strides, indices, i) ==
  IF i >= Size(indices) THEN 0
  ELSE indices[i] * strides[i] + FlatOffsetFrom(strides, indices, i + 1)

GetFlatTensorOffset(strides, indices) == FlatOffsetFrom(strides, indices, 0)

ShapeUnsupported == "ShapeUnsupported"

\* A plausible slip: the nested-tuple check left out.
RECURSIVE ComponentShapesLoop_NoCheck(_, _, _)
ComponentShapesLoop_NoCheck(shape, i, component_shapes) ==
  IF i > Len(shape.tuple_shapes)
  THEN [error |-> "none", component_shapes |-> component_shapes]
  ELSE ComponentShapesLoop_NoCheck(shape, i + 1,
                                   Append(component_shapes, shape.tuple_shapes[i]))

\* The loop of GetComponentShapes over tuple_shapes; XLA_CHECK aborts it.
RECURSIVE ComponentShapesLoop(_, _, _)
ComponentShapesLoop(shape, i, component_shapes) ==
  IF i > Len(shape.tuple_shapes)
  THEN [error |-> "none", component_shapes |-> component_shapes]
  ELSE IF IsTuple(shape.tuple_shapes[i])
       THEN [error |-> ShapeUnsupported, component_shapes |-> << >>]
       ELSE ComponentShapesLoop(shape, i + 1,
                                Append(component_shapes, shape.tuple_shapes[i]))

GetComponentShapes(shape) ==
  IF IsTuple(shape) THEN ComponentShapesLoop(shape, 1, << >>)
  ELSE [error |-> "none", component_shapes |-> <<shape>>]


(***************************************************************************)
(* Copy engine.                                                            *)
(***************************************************************************)
kMinorDimScale == 8

kMinThreadElements == 100000

\* The 0-based array with the entries of sequence q.
Arr(q) == [i \in 0..(Len(q) - 1) |-> q[i + 1]]

\* a with x appended (emplace_back on a 0-based array).
PushBack(a, x) == [j \in 0..Size(a) |-> IF j < Size(a) THEN a[j] ELSE x]

\* a with the entries at positions i and j exchanged (std::swap).
Swap(a, i, j) == [a EXCEPT ![i] = a[j], ![j] = a[i]]

\* A plausible slip: after a replacement the threshold is again
\* kMinorDimScale times the size of the dimension chosen.
RECURSIVE IterationDimsLoop_ScaledAgain(_, _, _, _, _)
IterationDimsLoop_ScaledAgain(shape, iter_dims, i, index, scaled_dim_size) ==
  IF i >= Size(iter_dims) THEN index
  ELSE LET dim == iter_dims[i]
       IN IF shape.dimensions[dim] > scaled_dim_size
          THEN IterationDimsLoop_ScaledAgain(shape, iter_dims, i + 1, i,
                                             kMinorDimScale * shape.dimensions[dim])
          ELSE IterationDimsLoop_ScaledAgain(shape, iter_dims, i + 1, index,
                                             scaled_dim_size)

\* The loop of GetIterationDimensions from position i; index is the position
\* of the current inner choice.
RECURSIVE IterationDimsLoop(_, _, _, _, _)
IterationDimsLoop(shape, iter_dims, i, index, scaled_dim_size) ==
  IF i >= Size(iter_dims) THEN index
  ELSE LET dim == iter_dims[i]
       IN IF shape.dimensions[dim] > scaled_dim_size
          THEN IterationDimsLoop(shape, iter_dims, i + 1, i, shape.dimensions[dim])
          ELSE IterationDimsLoop(shape, iter_dims, i + 1, index, scaled_dim_size)

\* GetIterationDimensions; only called for rank >= 1 (a rank 0 shape would
\* read iter_dims[0] of an empty vector).
GetIterationDimensions(shape) ==
  LET iter_dims == shape.minor_to_major
      index == IterationDimsLoop(shape, iter_dims, 1, 0,
                                 kMinorDimScale * shape.dimensions[iter_dims[0]])
  IN Swap(iter_dims, 0, index)

\* struct CopyPartition, as its constructor leaves it.
CopyPartition(dimensions) ==
  [base |-> [i \in DOMAIN dimensions |-> 0], limit |-> dimensions]

\* A plausible slip: the strided copy dimension is not left out.
RECURSIVE MaxDimLoop_AnyDimension(_, _, _, _)
MaxDimLoop_AnyDimension(dimensions, strided_copy_dimension, i, max_dim) ==
  IF i >= Size(dimensions) THEN max_dim
  ELSE IF max_dim < 0 \/ dimensions[i] > dimensions[max_dim]
       THEN MaxDimLoop_AnyDimension(dimensions, strided_copy_dimension, i + 1, i)
       ELSE MaxDimLoop_AnyDimension(dimensions, strided_copy_dimension, i + 1,
                                    max_dim)

\* The loop of CreateCopyPartitions that finds the maximum dimension which
\* is not the strided copy dimension; -1 when there is none.
RECURSIVE MaxDimLoop(_, _, _, _)
MaxDimLoop(dimensions, strided_copy_dimension, i, max_dim) ==
  IF i >= Size(dimensions) THEN max_dim
  ELSE IF i # strided_copy_dimension
          /\ (max_dim < 0 \/ dimensions[i] > dimensions[max_dim])
       THEN MaxDimLoop(dimensions, strided_copy_dimension, i + 1, i)
       ELSE MaxDimLoop(dimensions, strided_copy_dimension, i + 1, max_dim)

FindMaxDim(dimensions, strided_copy_dimension) ==
  MaxDimLoop(dimensions, strided_copy_dimension, 0, 0 - 1)

\* max_parts: at most 50% of the available cores.
MaxParts(hardware_concurrency) == Max2(hardware_concurrency \div 2, 1)

\* part_size of CreateCopyPartitions; min_thread_elements is kMinThreadElements.
PartSize(dimensions, max_dim, max_parts, min_thread_elements) ==
  LET num_elements == Multiply(dimensions)
      max_dim_unit_elements == num_elements \div dimensions[max_dim]
      max_dim_size == dimensions[max_dim]
  IN Max2(Max2(max_dim_size \div max_parts, 1),
          min_thread_elements \div max_dim_unit_elements)

\* A plausible slip: the last, shorter partition is dropped.
RECURSIVE PartitionsLoop_DropTail(_, _, _, _, _)
PartitionsLoop_DropTail(dimensions, max_dim, part_size, csize, parts) ==
  IF ~(csize + part_size <= dimensions[max_dim]) THEN parts
  ELSE LET n == Min2(part_size, dimensions[max_dim] - csize)
           p == CopyPartition(dimensions)
           q == [base |-> [p.base EXCEPT ![max_dim] = csize],
                 limit |-> [p.limit EXCEPT ![max_dim] = csize + n]]
       IN PartitionsLoop_DropTail(dimensions, max_dim, part_size, csize + n,
                                  PushBack(parts, q))

\* A plausible slip: every partition starts at the beginning of the split
\* dimension.
RECURSIVE PartitionsLoop_BaseZero(_, _, _, _, _)
PartitionsLoop_BaseZero(dimensions, max_dim, part_size, csize, parts) ==
  IF ~(csize < dimensions[max_dim]) THEN parts
  ELSE LET n == Min2(part_size, dimensions[max_dim] - csize)
           p == CopyPartition(dimensions)
           q == [base |-> p.base,
                 limit |-> [p.limit EXCEPT ![max_dim] = csize + n]]
       IN PartitionsLoop_BaseZero(dimensions, max_dim, part_size, csize + n,
                                  PushBack(parts, q))

\* The while loop of CreateCopyPartitions, from csize.
RECURSIVE PartitionsLoop(_, _, _, _, _)
PartitionsLoop(dimensions, max_dim, part_size, csize, parts) ==
  IF ~(csize < dimensions[max_dim]) THEN parts
  ELSE LET n == Min2(part_size, dimensions[max_dim] - csize)
           p == CopyPartition(dimensions)
           q == [base |-> [p.base EXCEPT ![max_dim] = csize],
                 limit |-> [p.limit EXCEPT ![max_dim] = csize + n]]
       IN PartitionsLoop(dimensions, max_dim, part_size, csize + n,
                         PushBack(parts, q))

\* CreateCopyPartitions, for dimensions with a split dimension and no zero
\* size; hardware_concurrency is what std::thread::hardware_concurrency()
\* returns and min_thread_elements is kMinThreadElements.
CreateCopyPartitions(dimensions, strided_copy_dimension, hardware_concurrency, min_thread_elements) ==
  LET max_parts == MaxParts(hardware_concurrency)
      max_dim == FindMaxDim(dimensions, strided_copy_dimension)
      part_size == PartSize(dimensions, max_dim, max_parts, min_thread_elements)
  IN PartitionsLoop(dimensions, max_dim, part_size, 0, EmptyArr)

\* The number of iterations of the loop of StridedCopy: source advances by
\* source_stride until it reaches source + n * source_stride.
StridedCopyCount(source_stride, n) == IF source_stride > 0 /\ n > 0 THEN n ELSE 0

\* The destination offsets StridedCopy writes.
StridedCopyWrites(dest_off, dest_stride, source_stride, n) ==
  {dest_off + j * dest_stride : j \in 0..(StridedCopyCount(source_stride, n) - 1)}

\* The source offsets StridedCopy reads.
StridedCopyReads(source_off, source_stride, n) ==
  {source_off + j * source_stride : j \in 0..(StridedCopyCount(source_stride, n) - 1)}

\* StridedCopy: the destination buffer after copying n elements; a later
\* write to the same offset overwrites an earlier one.
StridedCopy(dest, dest_off, dest_stride, source, source_off, source_stride, n, SType, DType) ==
  LET js == 0..(StridedCopyCount(source_stride, n) - 1)
      hits(o) == {j \in js : dest_off + j * dest_stride = o}
      last(o) == CHOOSE j \in hits(o) : \A k \in hits(o) : k <= j
  IN [o \in DOMAIN dest |->
        IF hits(o) = {} THEN dest[o]
        ELSE Cast(SType, DType, source[source_off + last(o) * source_stride])]

\* A plausible slip: an index that reaches its limit restarts at 0, not at
\* the partition's base.
RECURSIVE AdvanceIndices_ResetZero(_, _, _, _)
AdvanceIndices_ResetZero(indices, n, iter_dims, part) ==
  IF n >= Size(indices) THEN [indices |-> indices, n |-> n]
  ELSE LET dim == iter_dims[n]
           inc == [indices EXCEPT ![dim] = @ + 1]
       IN IF inc[dim] < part.limit[dim] THEN [indices |-> inc, n |-> n]
          ELSE AdvanceIndices_ResetZero([inc EXCEPT ![dim] = 0], n + 1,
                                        iter_dims, part)

\* The for loop of SlicedCopy that advances indices in iteration order,
\* from position n; it yields the indices and the n it ends with.
RECURSIVE AdvanceIndices(_, _, _, _)
AdvanceIndices(indices, n, iter_dims, part) ==
  IF n >= Size(indices) THEN [indices |-> indices, n |-> n]
  ELSE LET dim == iter_dims[n]
           inc == [indices EXCEPT ![dim] = @ + 1]
       IN IF inc[dim] < part.limit[dim] THEN [indices |-> inc, n |-> n]
          ELSE AdvanceIndices([inc EXCEPT ![dim] = part.base[dim]], n + 1,
                              iter_dims, part)

\* A plausible slip: the destination offset computed with the source's
\* strides.
SlicedCopyIteration_SrcOffset(dimensions, src_data, strides_src, dest_data, strides_dest, dims_iter, part, indices, SType, DType) ==
  LET inner == dims_iter[0]
      adv == AdvanceIndices(indices, 1, dims_iter, part)
  IN [dest_data |-> StridedCopy(dest_data,
                                GetFlatTensorOffset(strides_src, indices),
                                strides_dest[inner], src_data,
                                GetFlatTensorOffset(strides_src, indices),
                                strides_src[inner], dimensions[inner],
                                SType, DType),
      indices |-> adv.indices, n |-> adv.n,
      writes |-> StridedCopyWrites(GetFlatTensorOffset(strides_src, indices),
                                   strides_dest[inner], strides_src[inner],
                                   dimensions[inner]),
      reads |-> StridedCopyReads(GetFlatTensorOffset(strides_src, indices),
                                 strides_src[inner], dimensions[inner])]

\* One iteration of the while loop of SlicedCopy, at indices: the buffer
\* after the StridedCopy, the advanced indices and loop counter, and the
\* offsets the iteration wrote and read.
SlicedCopyIteration(dimensions, src_data, strides_src, dest_data, strides_dest, dims_iter, part, indices, SType, DType) ==
  LET inner == dims_iter[0]
      adv == AdvanceIndices(indices, 1, dims_iter, part)
  IN [dest_data |-> StridedCopy(dest_data,
                                GetFlatTensorOffset(strides_dest, indices),
                                strides_dest[inner], src_data,
                                GetFlatTensorOffset(strides_src, indices),
                                strides_src[inner], dimensions[inner],
                                SType, DType),
      indices |-> adv.indices, n |-> adv.n,
      writes |-> StridedCopyWrites(GetFlatTensorOffset(strides_dest, indices),
                                   strides_dest[inner], strides_src[inner],
                                   dimensions[inner]),
      reads |-> StridedCopyReads(GetFlatTensorOffset(strides_src, indices),
                                 strides_src[inner], dimensions[inner])]

\* SlicedCopy run to completion from indices with loop counter n.
RECURSIVE SlicedCopyFrom(_, _, _, _, _, _, _, _, _, _, _)
SlicedCopyFrom(dimensions, src_data, strides_src, dest_data, strides_dest, dims_iter, part, indices, n, SType, DType) ==
  IF ~(n < Size(indices)) THEN dest_data
  ELSE LET it == SlicedCopyIteration(dimensions, src_data, strides_src,
                                     dest_data, strides_dest, dims_iter, part,
                                     indices, SType, DType)
       IN SlicedCopyFrom(dimensions, src_data, strides_src, it.dest_data,
                         strides_dest, dims_iter, part, it.indices, it.n,
                         SType, DType)

SlicedCopy(dimensions, src_data, strides_src, dest_data, strides_dest, dims_iter, part, SType, DType) ==
  SlicedCopyFrom(dimensions, src_data, strides_src, dest_data, strides_dest,
                 dims_iter, part, part.base, 0, SType, DType)

\* CopyData: the linear copy of the first n elements (std::copy, the
\* step-1 StridedCopy, or memcpy between the two bfloat16 types).
CopyData(dest, source, n, SType, DType) ==
  [o \in DOMAIN dest |-> IF o < n THEN Cast(SType, DType, source[o]) ELSE dest[o]]


\* A plausible slip: the strided branch is taken without the test
\* total_elements > 0.
CopyTensorsBranch_NoElementsTest(shape_src, shape_dest) ==
  IF shape_src.minor_to_major = shape_dest.minor_to_major THEN "linear"
  ELSE "strided"

\* The branch CopyTensors takes once its checks have passed.
CopyTensorsBranch(shape_src, shape_dest) ==
  IF shape_src.minor_to_major = shape_dest.minor_to_major THEN "linear"
  ELSE IF ElementsIn(shape_src) > 0 THEN "strided"
  ELSE "nothing"

\* CreateCopyPartitions has defined behaviour: a split dimension exists
\* (max_dim is not -1) and neither division has a zero divisor.
PartitionsDefined(dimensions, strided_copy_dimension) ==
  LET max_dim == FindMaxDim(dimensions, strided_copy_dimension)
  IN /\ max_dim >= 0
     /\ dimensions[max_dim] # 0
     /\ Multiply(dimensions) \div dimensions[max_dim] # 0

\* The two XLA_CHECKs at the head of CopyTensors.
CopyTensorsCheck_NoSizeof(shape_src, size_dest, shape_dest, DType) ==
  IF ~SameDimensions(shape_src, shape_dest) THEN "ShapeMismatch"
  ELSE IF size_dest # ElementsIn(shape_src) THEN "BufferSizeMismatch"
  ELSE "none"

CopyTensorsCheck(shape_src, size_dest, shape_dest, DType) ==
  IF ~SameDimensions(shape_src, shape_dest) THEN "ShapeMismatch"
  ELSE IF size_dest # ElementsIn(shape_src) * SizeOf(DType)
       THEN "BufferSizeMismatch"
  ELSE "none"

\* The count the wait-group of CopyTensors is created with.
MultiWaitCount_OneLess(partitions) == Size(partitions) - 1

MultiWaitCount(partitions) == Size(partitions)

\* The partitions copied one after the other, from partition i on.
RECURSIVE CopyPartitionsFrom(_, _, _, _, _, _, _, _, _, _)
CopyPartitionsFrom(dimensions, src_data, strides_src, dest_data, strides_dest, dims_iter, partitions, i, SType, DType) ==
  IF i >= Size(partitions) THEN dest_data
  ELSE CopyPartitionsFrom(dimensions, src_data, strides_src,
                          SlicedCopy(dimensions, src_data, strides_src,
                                     dest_data, strides_dest, dims_iter,
                                     partitions[i], SType, DType),
                          strides_dest, dims_iter, partitions, i + 1,
                          SType, DType)

\* CopyTensors as its caller sees it: the error it fails with, or the
\* destination buffer when it returns.  The partition tasks write disjoint
\* offsets, so running them in order gives the buffer any schedule gives.
CopyTensors(src_data, shape_src, dest_data, size_dest, shape_dest, SType, DType, hardware_concurrency, min_thread_elements) ==
  LET err == CopyTensorsCheck(shape_src, size_dest, shape_dest, DType)
      total_elements == ElementsIn(shape_src)
      dims_iter == GetIterationDimensions(shape_dest)
  IN IF err # "none" THEN [error |-> err, dest_data |-> dest_data]
     ELSE IF shape_src.minor_to_major = shape_dest.minor_to_major
     THEN [error |-> "none",
           dest_data |-> CopyData(dest_data, src_data, total_elements,
                                  SType, DType)]
     ELSE IF total_elements > 0
     THEN [error |-> "none",
           dest_data |->
             CopyPartitionsFrom(shape_dest.dimensions, src_data,
                                ComputeShapeStrides(shape_src), dest_data,
                                ComputeShapeStrides(shape_dest), dims_iter,
                                CreateCopyPartitions(shape_dest.dimensions,
                                                     dims_iter[0],
                                                     hardware_concurrency,
                                                     min_thread_elements),
                                0, SType, DType)]
     ELSE [error |-> "none", dest_data |-> dest_data]


(***************************************************************************)
(* State.                                                                  *)
(***************************************************************************)
VARIABLES
  \* One call of CopyTensors<SType, DType>: its arguments ...
  src_buffer, src_shape, dest_buffer, dest_buffer_size, dest_shape, stype, dtype,
  \* ... the caller's position and the error it failed with ...
  pc, error,
  \* ... its locals on the strided path ...
  src_strides, dest_strides, iter_dims, parts, sched, mwait,
  \* ... what hardware_concurrency() returned and the threshold in force ...
  hw_concurrency, min_elements,
  \* ... the closures handed to the thread pool, one per partition ...
  tasks,
  \* ... and a record of the memory traffic: writes per destination offset,
  \* and whether a task ran after CopyTensors had returned.
  write_count, used_after_return,
  \* The type mapper: the environment, the function-local statics of
  \* UseBF16 / Use32BitLong, the number of GetEnvBool calls made for each
  \* variable, and the last call made.
  env, statics, getenv_calls, tm,
  \* The last call of a shape utility.
  sh,
  \* A tensor, the literal made of it and the tensor made of the literal.
  lt,
  \* One call of CreateTensorsData: its arguments, loop index, loop-local
  \* Device, the sources built and the populators the client has invoked.
  td,
  \* The last call of a function of the copy engine, with its arguments.
  eng

copy_vars == <<src_buffer, src_shape, dest_buffer, dest_buffer_size, dest_shape,
               stype, dtype, pc, error, src_strides, dest_strides, iter_dims,
               parts, sched, mwait, hw_concurrency, min_elements, tasks,
               write_count, used_after_return>>

types_vars == <<env, statics, getenv_calls, tm>>

vars == <<copy_vars, types_vars, sh, lt, td, eng>>

(***************************************************************************)
(* Inputs.                                                                 *)
(***************************************************************************)
\* Dimension lists of rank r, at most MaxElements elements.
DimensionLists(r) ==
  {d \in [0..(r - 1) -> 0..MaxDim] : Multiply(d) <= MaxElements}

\* Array shapes with a permutation layout.
ArrayShapes(element_type) ==
  UNION {{ArrayShape(element_type, d, m) : d \in DimensionLists(r), m \in Perms(r)}
           : r \in 0..MaxRank}

\* The instantiations of CopyTensors the model runs: a plain copy, a
\* float-to-integer cast and an integer-to-bfloat16 cast.
TypePairs == {<<"S32", "S32">>, <<"F64", "S8">>, <<"S16", "BF16">>}

\* The contents of the source buffer: distinct values, chosen per type so
\* that the cast has work to do (1, 2, 3, ... for S32; 1.5, 2.5, ... for
\* F64; 255, 256, 257, ... for S16).
SourceValue(SType, o) ==
  CASE SType = "S32" -> 2 * (o + 1)
    [] SType = "F64" -> 2 * o + 3
    [] SType = "S16" -> 2 * (255 + o)

\* What a buffer holds before anything is written to it.
Unwritten == 0 - 1

NewBuffer(n) == [o \in 0..(n - 1) |-> Unwritten]

\* Destination dimensions: the source's, or one that differs from them.
DestDimensions(d) ==
  {d} \cup (IF Size(d) > 0
            THEN {[d EXCEPT ![0] = @ + 1], [i \in 0..(Size(d) - 2) |-> d[i]]}
            ELSE {})

NoCall == [fn |-> "none", scalar_type |-> "Undefined",
           xla_type |-> "PRIMITIVE_TYPE_INVALID", hw_type |-> "CPU",
           result |-> "none"]

IdleTask == [state |-> "none", indices |-> EmptyArr, n |-> 0,
             writes |-> {}, reads |-> {}, copies |-> << >>]

NoLocals ==
  /\ src_strides = EmptyArr
  /\ dest_strides = EmptyArr
  /\ iter_dims = EmptyArr
  /\ parts = EmptyArr
  /\ sched = 0
  /\ mwait = [count |-> 0, completed |-> 0]
  /\ hw_concurrency = 0
  /\ min_elements = 0
  /\ tasks = EmptyArr
  /\ used_after_return = FALSE

CopyIdle ==
  /\ src_buffer = EmptyArr
  /\ src_shape = ArrayShape("S32", EmptyArr, EmptyArr)
  /\ dest_buffer = EmptyArr
  /\ dest_buffer_size = 0
  /\ dest_shape = ArrayShape("S32", EmptyArr, EmptyArr)
  /\ stype = "S32"
  /\ dtype = "S32"
  /\ pc = "idle"
  /\ error = "none"
  /\ write_count = EmptyArr
  /\ NoLocals

TypesIdle ==
  /\ env = [XLA_USE_BF16 |-> "unset", XLA_USE_32BIT_LONG |-> "unset"]
  /\ statics = [use_fp16 |-> [init |-> FALSE, value |-> FALSE],
                use_32bit_long |-> [init |-> FALSE, value |-> FALSE]]
  /\ getenv_calls = [XLA_USE_BF16 |-> 0, XLA_USE_32BIT_LONG |-> 0]
  /\ tm = NoCall

ShapesIdle == sh = [fn |-> "idle"]

LiteralIdle == lt = [pc |-> "idle"]

TransferIdle == td = [pc |-> "idle"]

EngineIdle == eng = [fn |-> "idle"]

(***************************************************************************)
(* CopyTensors: the caller.                                                *)
(***************************************************************************)
\* The caller holds a source of ElementsIn(src_shape) elements and a
\* destination of dest_buffer_size bytes.
Init ==
  /\ \E tp \in TypePairs :
       /\ stype = tp[1]
       /\ dtype = tp[2]
       /\ \E s \in ArrayShapes(tp[1]) :
            /\ src_shape = s
            /\ src_buffer = [o \in 0..(ElementsIn(s) - 1) |-> SourceValue(tp[1], o)]
            /\ \A o \in 0..(ElementsIn(s) - 1) :
                 CastDefined(tp[1], tp[2], SourceValue(tp[1], o))
            /\ \E d \in DestDimensions(s.dimensions) :
                 \E m \in Perms(Size(d)) :
                   /\ Multiply(d) <= MaxElements
                   /\ dest_shape = ArrayShape(tp[2], d, m)
                   /\ \E extra \in {0, 1} :
                        /\ dest_buffer_size = (Multiply(d) + extra) * SizeOf(tp[2])
                        /\ dest_buffer = NewBuffer(Multiply(d) + extra)
                        /\ write_count = [o \in 0..(Multiply(d) + extra - 1) |-> 0]
  /\ pc = "start"
  /\ error = "none"
  /\ NoLocals
  /\ TypesIdle
  /\ ShapesIdle
  /\ LiteralIdle
  /\ TransferIdle
  /\ EngineIdle

\* XLA_CHECK / XLA_CHECK_EQ fail: the call is aborted.
CopyTensorsFail ==
  /\ pc = "start"
  /\ CopyTensorsCheck(src_shape, dest_buffer_size, dest_shape, dtype) # "none"
  /\ error' = CopyTensorsCheck(src_shape, dest_buffer_size, dest_shape, dtype)
  /\ pc' = "failed"
  /\ UNCHANGED <<src_buffer, src_shape, dest_buffer, dest_buffer_size, dest_shape,
                 stype, dtype, src_strides, dest_strides, iter_dims, parts,
                 sched, mwait, hw_concurrency, min_elements, tasks, write_count,
                 used_after_return>>

\* Equal layouts: the linear CopyData, done by the caller itself.
CopyTensorsLinear ==
  /\ pc = "start"
  /\ CopyTensorsCheck(src_shape, dest_buffer_size, dest_shape, dtype) = "none"
  /\ CopyTensorsBranch(src_shape, dest_shape) = "linear"
  /\ dest_buffer' = CopyData(dest_buffer, src_buffer, ElementsIn(src_shape),
                             stype, dtype)
  /\ write_count' = [o \in DOMAIN write_count |->
                       IF o < ElementsIn(src_shape) THEN write_count[o] + 1
                       ELSE write_count[o]]
  /\ pc' = "returned"
  /\ UNCHANGED <<src_buffer, src_shape, dest_buffer_size, dest_shape, stype,
                 dtype, error, src_strides, dest_strides, iter_dims, parts,
                 sched, mwait, hw_concurrency, min_elements, tasks,
                 used_after_return>>

\* Different layouts and no element: neither branch is taken.
CopyTensorsNothing ==
  /\ pc = "start"
  /\ CopyTensorsCheck(src_shape, dest_buffer_size, dest_shape, dtype) = "none"
  /\ CopyTensorsBranch(src_shape, dest_shape) = "nothing"
  /\ pc' = "returned"
  /\ UNCHANGED <<src_buffer, src_shape, dest_buffer, dest_buffer_size, dest_shape,
                 stype, dtype, error, src_strides, dest_strides, iter_dims,
                 parts, sched, mwait, hw_concurrency, min_elements, tasks,
                 write_count, used_after_return>>

\* Different layouts: strides, iteration dimensions, partitions and the
\* wait-group are set up.  Were CreateCopyPartitions called without a split
\* dimension or with a zero divisor, the call would have no defined
\* behaviour from there on.
CopyTensorsStrided ==
  /\ pc = "start"
  /\ CopyTensorsCheck(src_shape, dest_buffer_size, dest_shape, dtype) = "none"
  /\ CopyTensorsBranch(src_shape, dest_shape) = "strided"
  /\ \E hc \in 0..MaxHardwareConcurrency :
       \E mte \in (1..ScaledMinThreadElements) \cup {kMinThreadElements} :
         LET id == GetIterationDimensions(dest_shape)
             defined == PartitionsDefined(dest_shape.dimensions, id[0])
             ps == IF defined
                   THEN CreateCopyPartitions(dest_shape.dimensions, id[0], hc, mte)
                   ELSE EmptyArr
         IN /\ hw_concurrency' = hc
            /\ min_elements' = mte
            /\ src_strides' = ComputeShapeStrides(src_shape)
            /\ dest_strides' = ComputeShapeStrides(dest_shape)
            /\ iter_dims' = id
            /\ parts' = ps
            /\ mwait' = [count |-> MultiWaitCount(ps), completed |-> 0]
            /\ tasks' = [i \in DOMAIN ps |-> [IdleTask EXCEPT !.state = "unscheduled"]]
            /\ pc' = IF defined THEN "schedule" ELSE "undefined"
  /\ sched' = 0
  /\ UNCHANGED <<src_buffer, src_shape, dest_buffer, dest_buffer_size, dest_shape,
                 stype, dtype, error, write_count, used_after_return>>

\* One turn of the scheduling loop: the closure of partition sched goes to
\* the thread pool; after the last one the caller calls mwait.Wait().
ScheduleClosure ==
  /\ pc = "schedule"
  /\ sched < Size(parts)
  /\ tasks' = [tasks EXCEPT ![sched] =
                 [@ EXCEPT !.state = "queued", !.indices = parts[sched].base]]
  /\ sched' = sched + 1
  /\ pc' = IF sched + 1 < Size(parts) THEN "schedule" ELSE "wait"
  /\ UNCHANGED <<src_buffer, src_shape, dest_buffer, dest_buffer_size, dest_shape,
                 stype, dtype, error, src_strides, dest_strides, iter_dims,
                 parts, mwait, hw_concurrency, min_elements, write_count,
                 used_after_return>>

\* mwait.Wait() returns once every completer has reported, and CopyTensors
\* returns: its locals (parts, strides, iter_dims, mwait) die.
Wait ==
  /\ pc = "wait"
  /\ mwait.completed >= mwait.count
  /\ pc' = "returned"
  /\ UNCHANGED <<src_buffer, src_shape, dest_buffer, dest_buffer_size, dest_shape,
                 stype, dtype, error, src_strides, dest_strides, iter_dims,
                 parts, sched, mwait, hw_concurrency, min_elements, tasks,
                 write_count, used_after_return>>

(***************************************************************************)
(* CopyTensors: the pool threads.                                          *)
(***************************************************************************)
\* A pool thread runs one iteration of SlicedCopy for partition i.
RunSlicedCopy(i) ==
  /\ tasks[i].state \in {"queued", "running"}
  /\ LET it == SlicedCopyIteration(dest_shape.dimensions, src_buffer, src_strides,
                                   dest_buffer, dest_strides, iter_dims,
                                   parts[i], tasks[i].indices, stype, dtype)
     IN /\ dest_buffer' = it.dest_data
        /\ write_count' = [o \in DOMAIN write_count |->
                             IF o \in it.writes THEN write_count[o] + 1
                             ELSE write_count[o]]
        /\ tasks' = [tasks EXCEPT ![i] =
                       [state |-> IF it.n < Size(it.indices) THEN "running"
                                  ELSE "copied",
                        indices |-> it.indices, n |-> it.n,
                        writes |-> @.writes \cup it.writes,
                        reads |-> @.reads \cup it.reads,
                        copies |-> Append(@.copies,
                                          [indices |-> tasks[i].indices,
                                           elements |-> Cardinality(it.writes)])]]
  /\ used_after_return' = (used_after_return \/ pc = "returned")
  /\ UNCHANGED <<src_buffer, src_shape, dest_buffer_size, dest_shape, stype,
                 dtype, pc, error, src_strides, dest_strides, iter_dims, parts,
                 sched, mwait, hw_concurrency, min_elements>>

\* The completer of partition i reports to the wait-group.
Done(i) ==
  /\ tasks[i].state = "copied"
  /\ tasks' = [tasks EXCEPT ![i] = [@ EXCEPT !.state = "done"]]
  /\ mwait' = [mwait EXCEPT !.completed = @ + 1]
  /\ UNCHANGED <<src_buffer, src_shape, dest_buffer, dest_buffer_size, dest_shape,
                 stype, dtype, pc, error, src_strides, dest_strides, iter_dims,
                 parts, sched, hw_concurrency, min_elements, write_count,
                 used_after_return>>

Next ==
  \/ /\ \/ CopyTensorsFail
        \/ CopyTensorsLinear
        \/ CopyTensorsNothing
        \/ CopyTensorsStrided
        \/ ScheduleClosure
        \/ Wait
        \/ \E i \in DOMAIN tasks : RunSlicedCopy(i)
        \/ \E i \in DOMAIN tasks : Done(i)
     /\ UNCHANGED <<types_vars, sh, lt, td, eng>>

Spec == Init /\ [][Next]_vars


(***************************************************************************)
(* Properties of CopyTensors (specification Spec).                         *)
(***************************************************************************)
\* The index vectors in range of a dimension list.
IndexVectors(d) ==
  {idx \in [DOMAIN d -> 0..MaxDim] : \A i \in DOMAIN d : idx[i] < d[i]}

\* C1: when CopyTensors has returned, for every in-range index vector the
\* destination element at the index's flat offset under the destination
\* strides is the cast of the source element at its flat offset under the
\* source strides, and every destination element was written exactly once;
\* Int [1..6] of shape [2,3], row-major, copied to layout [0,1] gives
\* [1,4,2,5,3,6].
C1_ElementwiseCopy ==
  pc = "returned" =>
    /\ \A idx \in IndexVectors(src_shape.dimensions) :
         dest_buffer[GetFlatTensorOffset(ComputeShapeStrides(dest_shape), idx)]
           = Cast(stype, dtype,
                  src_buffer[GetFlatTensorOffset(ComputeShapeStrides(src_shape), idx)])
    /\ \A o \in DOMAIN write_count : write_count[o] = 1
    /\ (/\ stype = "S32" /\ dtype = "S32"
        /\ src_shape.dimensions = Arr(<<2, 3>>)
        /\ src_shape.minor_to_major = Arr(<<1, 0>>)
        /\ dest_shape.minor_to_major = Arr(<<0, 1>>))
       => dest_buffer = Arr(<<2, 8, 4, 10, 6, 12>>)

\* C1 witness: the [2,3] row-major to column-major copy has returned with
\* the transposed buffer.
C1_Witness ==
  /\ pc = "returned"
  /\ stype = "S32" /\ dtype = "S32"
  /\ src_shape.dimensions = Arr(<<2, 3>>)
  /\ src_shape.minor_to_major = Arr(<<1, 0>>)
  /\ dest_shape.minor_to_major = Arr(<<0, 1>>)
  /\ src_buffer = Arr(<<2, 4, 6, 8, 10, 12>>)
  /\ dest_buffer = Arr(<<2, 8, 4, 10, 6, 12>>)
  /\ Size(parts) > 1

\* C2: on the strided path the wait-group counts the partitions, one
\* closure is scheduled per partition, CopyTensors returns only when every
\* closure has finished, and no closure runs after the return.
C2_ReturnsAfterAllTasks ==
  /\ pc \in {"schedule", "wait", "returned"} =>
       /\ mwait.count = Size(parts)
       /\ DOMAIN tasks = DOMAIN parts
  /\ pc \in {"wait", "returned"} =>
       \A i \in DOMAIN tasks : tasks[i].state # "unscheduled"
  /\ pc = "returned" => \A i \in DOMAIN tasks : tasks[i].state = "done"
  /\ ~used_after_return

\* C2 witness: a copy split in three partitions has returned.
C2_Witness ==
  /\ pc = "returned"
  /\ Size(parts) = 3
  /\ mwait.completed = 3

\* C3: no two partition tasks write the same destination offset, every
\* access stays inside its buffer, and no task writes a location another
\* task reads (tasks read the source buffer and write the destination).
C3_DisjointWrites ==
  \A i, j \in DOMAIN tasks :
    /\ tasks[i].writes \subseteq DOMAIN dest_buffer
    /\ tasks[i].reads \subseteq DOMAIN src_buffer
    /\ i # j =>
         /\ tasks[i].writes \cap tasks[j].writes = {}
         /\ {<<"dest", o>> : o \in tasks[i].writes}
              \cap {<<"src", o>> : o \in tasks[j].reads} = {}

\* C3 witness: two tasks are under way at once, each having written.
C3_Witness ==
  \E i, j \in DOMAIN tasks :
    /\ i # j
    /\ tasks[i].state = "running" /\ tasks[i].writes # {}
    /\ tasks[j].state = "running" /\ tasks[j].writes # {}

\* C4: the destination CopyTensors leaves is the one a single partition
\* (max_parts = 1) copied in order leaves, whatever hardware_concurrency()
\* returned and however the tasks were scheduled.
C4_PartitionIndependence ==
  pc = "returned" =>
    dest_buffer = CopyTensors(src_buffer, src_shape, NewBuffer(Size(dest_buffer)),
                              dest_buffer_size, dest_shape, stype, dtype, 1,
                              kMinThreadElements).dest_data

\* C4 witness: a copy split in several partitions for max_parts = 2 has
\* returned.
C4_Witness ==
  /\ pc = "returned"
  /\ MaxParts(hw_concurrency) = 2
  /\ Size(parts) >= 2
  /\ \A o \in DOMAIN dest_buffer : dest_buffer[o] # Unwritten

\* C9: CopyTensors fails exactly when the dimensions differ or the
\* destination size is not ElementsIn(src_shape) * sizeof(DType); when it
\* has failed nothing was written and no task was scheduled.
C9_ChecksBeforeWrites ==
  /\ pc \notin {"idle", "start"} =>
       (pc = "failed" <=>
          \/ src_shape.dimensions # dest_shape.dimensions
          \/ dest_buffer_size # ElementsIn(src_shape) * SizeOf(dtype))
  /\ pc = "failed" =>
       /\ error = IF src_shape.dimensions # dest_shape.dimensions
                  THEN "ShapeMismatch" ELSE "BufferSizeMismatch"
       /\ dest_buffer = NewBuffer(Size(dest_buffer))
       /\ \A o \in DOMAIN write_count : write_count[o] = 0
       /\ tasks = EmptyArr

\* C9 witness: a call with equal dimensions and a destination one element
\* too large has failed.
C9_Witness ==
  /\ pc = "failed"
  /\ error = "BufferSizeMismatch"
  /\ ElementsIn(src_shape) > 0
  /\ src_shape.minor_to_major # dest_shape.minor_to_major

\* The index vectors of a partition that SlicedCopy issues a StridedCopy
\* at: every combination of the non-inner indices within [base, limit), the
\* inner index being 0.
PartitionRuns(part, inner) ==
  {idx \in IndexVectors(part.limit) :
     /\ \A j \in DOMAIN idx : idx[j] >= part.base[j]
     /\ idx[inner] = 0}

\* C17: for every partition (base < limit on all dimensions) the loop of
\* SlicedCopy ends after one iteration per combination of the non-inner
\* indices within [base, limit): each iteration issues one StridedCopy of
\* dim[inner] elements at a combination not visited before, with inner
\* index 0; the loop is over exactly when every combination has had its
\* copy; and the index vector stays within [base, limit) on every dimension.
C17_SlicedCopyTerminates ==
  [][\A i \in DOMAIN tasks' :
       LET t == tasks'[i]
           part == parts'[i]
           inner == iter_dims'[0]
           runs == PartitionRuns(part, inner)
       IN /\ \A j \in DOMAIN part.base : part.base[j] < part.limit[j]
          /\ t.state \in {"queued", "running", "copied", "done"} =>
               /\ DOMAIN t.indices = DOMAIN part.base
               /\ \A j \in DOMAIN t.indices :
                    part.base[j] <= t.indices[j] /\ t.indices[j] < part.limit[j]
          /\ \A k \in 1..Len(t.copies) :
               /\ t.copies[k].indices \in runs
               /\ t.copies[k].elements = dest_shape'.dimensions[inner]
               /\ \A l \in 1..Len(t.copies) :
                    t.copies[l].indices = t.copies[k].indices => l = k
          /\ t.state \in {"copied", "done"} <=> Len(t.copies) = Cardinality(runs)
          /\ (i \in DOMAIN tasks /\ tasks[i].state \in {"queued", "running"}
              /\ tasks[i] # t) =>
               Len(t.copies) = Len(tasks[i].copies) + 1]_vars

\* C17 witness: the SlicedCopy of a partition that does not start at 0 has
\* ended after two iterations.
C17_Witness ==
  \E i \in DOMAIN tasks :
    /\ tasks[i].state = "done"
    /\ Len(tasks[i].copies) = 2
    /\ \E j \in DOMAIN parts[i].base : parts[i].base[j] > 0

\* The strided path was entered by the call.
StridedEntered ==
  pc \in {"schedule", "wait", "undefined"} \/ (pc = "returned" /\ Size(parts) > 0)

\* C18: the strided path of CopyTensors is entered only for shapes of rank
\* >= 2 with at least one element: shapes of rank 0 or 1 have equal
\* layouts, and with no element the branch is skipped; so
\* CreateCopyPartitions always finds a split dimension (max_dim is not -1)
\* and never divides by zero.
C18_StridedOnlyForRankTwo ==
  /\ pc # "undefined"
  /\ StridedEntered =>
       /\ Rank(dest_shape) >= 2
       /\ ElementsIn(src_shape) > 0
       /\ LET max_dim == FindMaxDim(dest_shape.dimensions, iter_dims[0])
          IN /\ max_dim >= 0
             /\ max_dim # iter_dims[0]
             /\ dest_shape.dimensions[max_dim] > 0
             /\ ElementsIn(dest_shape) \div dest_shape.dimensions[max_dim] > 0
  /\ (pc \notin {"start", "failed"} /\ Rank(src_shape) <= 1) =>
       src_shape.minor_to_major = dest_shape.minor_to_major
  /\ (pc \notin {"start", "failed"}
      /\ (Rank(src_shape) <= 1 \/ ElementsIn(src_shape) = 0)) => ~StridedEntered

\* C18 witness: a call with different layouts and no element (rank 2) has
\* returned without entering the strided path.
C18_Witness ==
  /\ pc = "returned"
  /\ Rank(src_shape) = 2
  /\ ElementsIn(src_shape) = 0
  /\ src_shape.minor_to_major # dest_shape.minor_to_major
  /\ ~StridedEntered
  /\ tasks = EmptyArr


(***************************************************************************)
(* The type mapper and its global toggles (specification SpecTypes).       *)
(***************************************************************************)
EnvValues == {"unset", "false", "true"}

\* xla::sys_util::GetEnvBool
GetEnvBool(value, defval) == IF value = "unset" THEN defval ELSE value = "true"

ShouldUseBF16 == GetEnvBool(env.XLA_USE_BF16, FALSE)

ShouldUse32BitLong == GetEnvBool(env.XLA_USE_32BIT_LONG, FALSE)

\* A plausible slip: the toggle is computed on every call (no static).
UseBF16_Uncached == ShouldUseBF16

\* UseBF16(): the function-local static is initialised by the first call.
UseBF16 ==
  IF statics.use_fp16.init THEN statics.use_fp16.value ELSE ShouldUseBF16

Use32BitLong ==
  IF statics.use_32bit_long.init THEN statics.use_32bit_long.value
  ELSE ShouldUse32BitLong

\* The statics after a call that reads UseBF16 (bf) and Use32BitLong (lg).
StaticsAfter(bf, lg) ==
  [use_fp16 |-> IF bf THEN [init |-> TRUE, value |-> UseBF16]
                ELSE statics.use_fp16,
   use_32bit_long |-> IF lg THEN [init |-> TRUE, value |-> Use32BitLong]
                      ELSE statics.use_32bit_long]

\* The GetEnvBool calls made after a call that reads UseBF16 (bf) and
\* Use32BitLong (lg): the initialiser of a static runs when the static is
\* not initialised yet.
GetEnvCallsAfter(bf, lg) ==
  [XLA_USE_BF16 |->
     getenv_calls.XLA_USE_BF16
       + (IF bf /\ ~statics.use_fp16.init THEN 1 ELSE 0),
   XLA_USE_32BIT_LONG |->
     getenv_calls.XLA_USE_32BIT_LONG
       + (IF lg /\ ~statics.use_32bit_long.init THEN 1 ELSE 0)]

InitTypes ==
  /\ env \in [XLA_USE_BF16 : EnvValues, XLA_USE_32BIT_LONG : EnvValues]
  /\ statics = [use_fp16 |-> [init |-> FALSE, value |-> FALSE],
                use_32bit_long |-> [init |-> FALSE, value |-> FALSE]]
  /\ getenv_calls = [XLA_USE_BF16 |-> 0, XLA_USE_32BIT_LONG |-> 0]
  /\ tm = NoCall
  /\ CopyIdle
  /\ ShapesIdle
  /\ LiteralIdle
  /\ TransferIdle
  /\ EngineIdle

\* The process changes an environment variable.
SetEnv ==
  /\ \E name \in {"XLA_USE_BF16", "XLA_USE_32BIT_LONG"} :
       \E v \in EnvValues :
         /\ env[name] # v
         /\ env' = [env EXCEPT ![name] = v]
  /\ UNCHANGED <<statics, getenv_calls, tm>>

CallTensorTypeToRawXlaType ==
  /\ \E k \in ScalarTypes :
       tm' = [fn |-> "TensorTypeToRawXlaType", scalar_type |-> k,
              xla_type |-> "PRIMITIVE_TYPE_INVALID", hw_type |-> "CPU",
              result |-> TensorTypeToRawXlaType(k)]
  /\ UNCHANGED <<env, statics, getenv_calls>>

CallTensorTypeFromXlaType ==
  /\ \E x \in PrimitiveTypes :
       /\ tm' = [fn |-> "TensorTypeFromXlaType", scalar_type |-> "Undefined",
                 xla_type |-> x, hw_type |-> "CPU",
                 result |-> TensorTypeFromXlaType(x, UseBF16)]
       /\ statics' = StaticsAfter(x = "BF16", FALSE)
       /\ getenv_calls' = GetEnvCallsAfter(x = "BF16", FALSE)
  /\ UNCHANGED env

\* TensorTypeFromXlaType applied to what TensorTypeToRawXlaType returned;
\* scalar_type keeps the scalar type the raw type was made from.
CallTensorTypeFromRawXlaType ==
  /\ tm.fn = "TensorTypeToRawXlaType"
  /\ tm.result # TypeUnsupported
  /\ tm' = [fn |-> "TensorTypeFromXlaType", scalar_type |-> tm.scalar_type,
            xla_type |-> tm.result, hw_type |-> "CPU",
            result |-> TensorTypeFromXlaType(tm.result, UseBF16)]
  /\ statics' = StaticsAfter(tm.result = "BF16", FALSE)
  /\ getenv_calls' = GetEnvCallsAfter(tm.result = "BF16", FALSE)
  /\ UNCHANGED env

CallGetDevicePrimitiveType ==
  /\ \E x \in PrimitiveTypes, hw \in DeviceTypes :
       /\ tm' = [fn |-> "GetDevicePrimitiveType", scalar_type |-> "Undefined",
                 xla_type |-> x, hw_type |-> hw,
                 result |-> GetDevicePrimitiveType(x, hw, UseBF16, Use32BitLong)]
       /\ statics' = StaticsAfter(ReadsBF16(x), Reads32BitLong(x))
       /\ getenv_calls' = GetEnvCallsAfter(ReadsBF16(x), Reads32BitLong(x))
  /\ UNCHANGED env

CallMakeXlaPrimitiveType ==
  /\ \E k \in ScalarTypes, hw \in DeviceTypes :
       /\ tm' = [fn |-> "MakeXlaPrimitiveType", scalar_type |-> k,
                 xla_type |-> "PRIMITIVE_TYPE_INVALID", hw_type |-> hw,
                 result |-> MakeXlaPrimitiveType(k, hw, UseBF16, Use32BitLong)]
       /\ statics' = StaticsAfter(k \in {"Double", "Float"}, k = "Long")
       /\ getenv_calls' = GetEnvCallsAfter(k \in {"Double", "Float"}, k = "Long")
  /\ UNCHANGED env

\* UseBF16() called on its own; the result is recorded as text.
CallUseBF16 ==
  /\ tm' = [fn |-> "UseBF16", scalar_type |-> "Undefined",
            xla_type |-> "PRIMITIVE_TYPE_INVALID", hw_type |-> "CPU",
            result |-> IF UseBF16 THEN "true" ELSE "false"]
  /\ statics' = StaticsAfter(TRUE, FALSE)
  /\ getenv_calls' = GetEnvCallsAfter(TRUE, FALSE)
  /\ UNCHANGED env

CallUse32BitLong ==
  /\ tm' = [fn |-> "Use32BitLong", scalar_type |-> "Undefined",
            xla_type |-> "PRIMITIVE_TYPE_INVALID", hw_type |-> "CPU",
            result |-> IF Use32BitLong THEN "true" ELSE "false"]
  /\ statics' = StaticsAfter(FALSE, TRUE)
  /\ getenv_calls' = GetEnvCallsAfter(FALSE, TRUE)
  /\ UNCHANGED env

NextTypes ==
  \/ /\ \/ SetEnv
        \/ CallUseBF16
        \/ CallUse32BitLong
        \/ CallTensorTypeToRawXlaType
        \/ CallTensorTypeFromXlaType
        \/ CallTensorTypeFromRawXlaType
        \/ CallGetDevicePrimitiveType
        \/ CallMakeXlaPrimitiveType
     /\ UNCHANGED <<copy_vars, sh, lt, td, eng>>

SpecTypes == InitTypes /\ [][NextTypes]_vars

\* The promotion table of the type mapper, as the design states it.
PromotionTable(k, hw, bf16_mode, long32_mode) ==
  CASE k = "Double" ->
         IF bf16_mode THEN "BF16" ELSE IF hw = "TPU" THEN "F32" ELSE "F64"
    [] k = "Float" -> IF bf16_mode THEN "BF16" ELSE "F32"
    [] k = "BFloat16" -> "BF16"
    [] k = "Bool" -> "PRED"
    [] k = "Byte" -> IF hw = "TPU" THEN "U32" ELSE "U8"
    [] k = "Char" -> IF hw = "TPU" THEN "S32" ELSE "S8"
    [] k = "Short" -> IF hw = "TPU" THEN "S32" ELSE "S16"
    [] k = "Int" -> "S32"
    [] k = "Long" -> IF long32_mode THEN "S32" ELSE "S64"

\* C6: for every supported scalar kind, device type and toggle combination
\* MakeXlaPrimitiveType(k, device) is the promotion table's entry and is
\* GetDevicePrimitiveType(TensorTypeToRawXlaType(k), device).
C6_PromotionTable ==
  (tm.fn = "MakeXlaPrimitiveType" /\ tm.scalar_type \in SupportedScalarTypes) =>
    /\ tm.result = PromotionTable(tm.scalar_type, tm.hw_type, UseBF16, Use32BitLong)
    /\ tm.result = GetDevicePrimitiveType(TensorTypeToRawXlaType(tm.scalar_type),
                                          tm.hw_type, UseBF16, Use32BitLong)

\* C6 witness: a Double on REMOTE_TPU with BF16Mode off was mapped to F64.
C6_Witness ==
  /\ tm.fn = "MakeXlaPrimitiveType"
  /\ tm.scalar_type = "Double"
  /\ tm.hw_type = "REMOTE_TPU"
  /\ statics.use_fp16.init /\ ~statics.use_fp16.value
  /\ tm.result = "F64"

\* The inverse mapping, as the design states it.
InverseTable(x, bf16_mode) ==
  CASE x = "BF16" -> IF bf16_mode THEN "Float" ELSE "BFloat16"
    [] x = "F32" -> "Float"
    [] x = "F64" -> "Double"
    [] x = "PRED" -> "Bool"
    [] x = "U8" -> "Byte"
    [] x = "S8" -> "Char"
    [] x \in {"S16", "U16"} -> "Short"
    [] x \in {"S32", "U32"} -> "Int"
    [] x \in {"S64", "U64"} -> "Long"

\* C7: TensorTypeFromXlaType follows the inverse table on the twelve
\* supported primitives, fails with a type-unsupported error on every other
\* one, and with BF16Mode off gives back the scalar kind a raw XLA type was
\* made from.
C7_InverseMapping ==
  tm.fn = "TensorTypeFromXlaType" =>
    /\ tm.xla_type \in {"BF16", "F32", "F64", "PRED", "U8", "S8", "S16", "U16",
                        "S32", "U32", "S64", "U64"}
         => tm.result = InverseTable(tm.xla_type, UseBF16)
    /\ tm.xla_type \notin {"BF16", "F32", "F64", "PRED", "U8", "S8", "S16", "U16",
                           "S32", "U32", "S64", "U64"}
         => tm.result = TypeUnsupported
    /\ (tm.scalar_type \in SupportedScalarTypes /\ ~UseBF16)
         => tm.result = tm.scalar_type

\* C7 witness: BFloat16 went to BF16 and came back as BFloat16 with
\* BF16Mode off.
C7_Witness ==
  /\ tm.fn = "TensorTypeFromXlaType"
  /\ tm.scalar_type = "BFloat16"
  /\ tm.xla_type = "BF16"
  /\ statics.use_fp16.init /\ ~statics.use_fp16.value
  /\ tm.result = "BFloat16"

\* What GetEnvBool gives for a boolean variable whose default is false.
EnvFlag(name) == env[name] = "true"

\* One step keeps a toggle read once and cached: GetEnvBool has been called
\* for its variable once at most, and once exactly when the static is
\* initialised; the step that initialises the static makes that one call and
\* stores what the environment holds at that moment (false when unset); a
\* step from a state with the static initialised neither changes the static
\* nor reads the variable again.
CachedOnce(static, name) ==
  /\ getenv_calls'[name] <= 1
  /\ (getenv_calls'[name] = 1) <=> statics'[static].init
  /\ (~statics[static].init /\ statics'[static].init) =>
       /\ statics'[static].value = EnvFlag(name)
       /\ getenv_calls[name] = 0
  /\ statics[static].init =>
       /\ statics'[static] = statics[static]
       /\ getenv_calls'[name] = getenv_calls[name]

\* C12: each of the two toggles reads its environment variable once, at its
\* first access; every later call of UseBF16 / Use32BitLong returns the
\* value seen then, whatever the environment has become; unset means false.
C12_TogglesReadOnce ==
  [][/\ CachedOnce("use_fp16", "XLA_USE_BF16")
     /\ CachedOnce("use_32bit_long", "XLA_USE_32BIT_LONG")
     /\ tm'.fn = "UseBF16" =>
          /\ statics'.use_fp16.init
          /\ tm'.result = (IF statics'.use_fp16.value THEN "true" ELSE "false")
     /\ tm'.fn = "Use32BitLong" =>
          /\ statics'.use_32bit_long.init
          /\ tm'.result = (IF statics'.use_32bit_long.value THEN "true"
                           ELSE "false")]_vars

\* C12 witness: UseBF16 has returned false, the value read while the
\* variable was unset, although XLA_USE_BF16 is now "true".
C12_Witness ==
  /\ tm.fn = "UseBF16"
  /\ tm.result = "false"
  /\ env.XLA_USE_BF16 = "true"
  /\ statics.use_fp16.init
  /\ getenv_calls.XLA_USE_BF16 = 1


(***************************************************************************)
(* The shape utilities (specification SpecShapes).                         *)
(***************************************************************************)
\* Shapes a tuple is built of: two arrays, and tuples of them.
LeafShapes == {ArrayShape("F32", Arr(<<2>>), Arr(<<0>>)),
               ArrayShape("S32", Arr(<<3>>), Arr(<<0>>))}

SeqsUpTo(S, n) == UNION {[1..k -> S] : k \in 0..n}

TupleShapes ==
  {TupleShape(q) :
     q \in SeqsUpTo(LeafShapes \cup {TupleShape(<< >>),
                                     TupleShape(<<ArrayShape("F32", Arr(<<2>>),
                                                             Arr(<<0>>))>>)},
                    MaxTuple)}

InitShapes ==
  /\ \E s \in ArrayShapes("F32") \cup TupleShapes : sh = [fn |-> "none", shape |-> s]
  /\ CopyIdle
  /\ TypesIdle
  /\ LiteralIdle
  /\ TransferIdle
  /\ EngineIdle

CallComputeShapeStrides ==
  /\ sh.fn = "none"
  /\ ~IsTuple(sh.shape)
  /\ sh' = [fn |-> "ComputeShapeStrides", shape |-> sh.shape,
            strides |-> ComputeShapeStrides(sh.shape)]

CallComputeArrayStrides ==
  /\ sh.fn = "none"
  /\ ~IsTuple(sh.shape)
  /\ sh' = [fn |-> "ComputeArrayStrides", sizes |-> sh.shape.dimensions,
            strides |-> ComputeArrayStrides(sh.shape.dimensions)]

CallGetComponentShapes ==
  /\ sh.fn = "none"
  /\ sh' = [fn |-> "GetComponentShapes", shape |-> sh.shape,
            result |-> GetComponentShapes(sh.shape)]

NextShapes ==
  \/ /\ \/ CallComputeShapeStrides
        \/ CallComputeArrayStrides
        \/ CallGetComponentShapes
     /\ UNCHANGED <<copy_vars, types_vars, lt, td, eng>>

SpecShapes == InitShapes /\ [][NextShapes]_vars

\* C5: ComputeShapeStrides gives stride 1 to the most minor dimension and to
\* each next dimension of minor_to_major the previous stride times the
\* previous dimension's size, so that the flat offset is a bijection from
\* the in-range index vectors onto 0..ElementsIn-1.
C5_StrideFormula ==
  sh.fn = "ComputeShapeStrides" =>
    LET m == sh.shape.minor_to_major
        d == sh.shape.dimensions
        r == Rank(sh.shape)
    IN /\ DOMAIN sh.strides = DOMAIN d
       /\ r > 0 => sh.strides[m[0]] = 1
       /\ \A k \in 0..(r - 2) : sh.strides[m[k + 1]] = sh.strides[m[k]] * d[m[k]]
       /\ {GetFlatTensorOffset(sh.strides, idx) : idx \in IndexVectors(d)}
            = 0..(ElementsIn(sh.shape) - 1)
       /\ \A idx1, idx2 \in IndexVectors(d) :
            idx1 # idx2 => GetFlatTensorOffset(sh.strides, idx1)
                             # GetFlatTensorOffset(sh.strides, idx2)

\* C5 witness: the strides of a [2,3,1] shape laid out [1,2,0] are [3,1,3].
C5_Witness ==
  /\ sh.fn = "ComputeShapeStrides"
  /\ sh.shape.dimensions = Arr(<<2, 3, 1>>)
  /\ sh.shape.minor_to_major = Arr(<<1, 2, 0>>)
  /\ sh.strides = Arr(<<3, 1, 3>>)

\* C10: GetComponentShapes returns [shape] for an array, the direct
\* children in order for a tuple of non-tuples, and fails with
\* ShapeUnsupported for a tuple with a tuple among its direct children.
C10_ComponentShapes ==
  sh.fn = "GetComponentShapes" =>
    LET children == sh.shape.tuple_shapes
        nested == \E i \in 1..Len(children) : IsTuple(children[i])
    IN /\ ~IsTuple(sh.shape) =>
            sh.result = [error |-> "none", component_shapes |-> <<sh.shape>>]
       /\ (IsTuple(sh.shape) /\ ~nested) =>
            sh.result = [error |-> "none", component_shapes |-> children]
       /\ (IsTuple(sh.shape) /\ nested) => sh.result.error = ShapeUnsupported

\* C10 witness: Tuple(Array(F32,[2]), Array(S32,[3])) gave its two children.
C10_Witness ==
  /\ sh.fn = "GetComponentShapes"
  /\ sh.shape = TupleShape(<<ArrayShape("F32", Arr(<<2>>), Arr(<<0>>)),
                             ArrayShape("S32", Arr(<<3>>), Arr(<<0>>))>>)
  /\ sh.result.error = "none"
  /\ sh.result.component_shapes = <<ArrayShape("F32", Arr(<<2>>), Arr(<<0>>)),
                                    ArrayShape("S32", Arr(<<3>>), Arr(<<0>>))>>

\* The layout that lists the dimensions from the last to the first:
\* minor_to_major = [r-1, ..., 0].
DescendingLayout(r) == [k \in 0..(r - 1) |-> r - 1 - k]

\* C19: ComputeArrayStrides returns a list as long as the size list, with
\* stride 1 on the last axis and strides[i] = strides[i+1] * sizes[i+1] on
\* every earlier axis; the list equals ComputeShapeStrides of a shape with
\* the same sizes and minor_to_major = [r-1, ..., 0], and is empty for an
\* empty size list.
C19_ArrayStridesRowMajor ==
  sh.fn = "ComputeArrayStrides" =>
    LET r == Size(sh.sizes)
    IN /\ DOMAIN sh.strides = DOMAIN sh.sizes
       /\ r > 0 => sh.strides[r - 1] = 1
       /\ \A i \in 0..(r - 2) : sh.strides[i] = sh.strides[i + 1] * sh.sizes[i + 1]
       /\ sh.strides
            = ComputeShapeStrides(ArrayShape("F32", sh.sizes, DescendingLayout(r)))
       /\ r = 0 => sh.strides = EmptyArr

\* C19 witness: the array strides of the sizes [2,3,1] are [3,1,1].
C19_Witness ==
  /\ sh.fn = "ComputeArrayStrides"
  /\ sh.sizes = Arr(<<2, 3, 1>>)
  /\ sh.strides = Arr(<<3, 1, 1>>)


(***************************************************************************)
(* Tensors and literals (specification SpecLiteral).                       *)
(***************************************************************************)
\* The element types the dispatch switches instantiate the copy for.
BufferTypes == {"BF16", "F32", "F64", "PRED", "U8", "S8", "S16", "U16", "S32",
                "U32", "S64", "U64"}

\* The C++ element type of a tensor of a scalar kind (the template argument
\* PopulateTensorBuffer and XlaLiteralToTensorHelper select), named by the
\* primitive type with that representation.
ScalarCType(scalar_type) ==
  CASE scalar_type = "Double" -> "F64"
    [] scalar_type = "Float" -> "F32"
    [] scalar_type = "BFloat16" -> "BF16"
    [] scalar_type = "Bool" -> "PRED"
    [] scalar_type = "Byte" -> "U8"
    [] scalar_type = "Char" -> "S8"
    [] scalar_type = "Short" -> "S16"
    [] scalar_type = "Int" -> "S32"
    [] scalar_type = "Long" -> "S64"
    [] OTHER -> TypeUnsupported

\* MakeSwiftTensorLayout: the host tensor's row-major layout.
MakeSwiftTensorLayout(dimensions, element_type) ==
  ArrayShape(element_type, dimensions,
             [i \in DOMAIN dimensions |-> Size(dimensions) - 1 - i])

\* A shape pointer that is nullptr, and the shape of a call that built none.
NullShape == [element_type |-> "nullptr", dimensions |-> EmptyArr,
              minor_to_major |-> EmptyArr, tuple_shapes |-> << >>]

\* A plausible slip: the source shape is given the device's target
\* primitive, as the destination shapes are.
TensorToBuffer_DevicePrimitive(tensor, shape_dest, dest_data, size_dest, hw_type, SType, DType, hardware_concurrency, min_thread_elements) ==
  LET shape_src ==
        MakeSwiftTensorLayout(tensor.shape,
                              MakeXlaPrimitiveType(tensor.scalar_type, hw_type,
                                                   UseBF16, Use32BitLong))
      copied == CopyTensors(tensor.data, shape_src, dest_data, size_dest,
                            shape_dest, SType, DType, hardware_concurrency,
                            min_thread_elements)
  IN [error |-> copied.error, dest_data |-> copied.dest_data,
      src_shape |-> shape_src]

\* TensorToBuffer: the source shape is built with XlaTypeFromTensorType.
\* The result keeps the source shape the call built beside what CopyTensors
\* left in the destination.
TensorToBuffer(tensor, shape_dest, dest_data, size_dest, hw_type, SType, DType, hardware_concurrency, min_thread_elements) ==
  LET shape_src ==
        MakeSwiftTensorLayout(tensor.shape,
                              XlaTypeFromTensorType(tensor.scalar_type, hw_type))
      copied == CopyTensors(tensor.data, shape_src, dest_data, size_dest,
                            shape_dest, SType, DType, hardware_concurrency,
                            min_thread_elements)
  IN [error |-> copied.error, dest_data |-> copied.dest_data,
      src_shape |-> shape_src]

\* PopulateTensorBuffer and TensorToBufferSType: the two dispatch switches.
PopulateTensorBuffer(tensor, shape_dest, dest_data, size_dest, hw_type, hardware_concurrency, min_thread_elements) ==
  IF tensor.scalar_type \notin SupportedScalarTypes
  THEN [error |-> TypeUnsupported, dest_data |-> dest_data,
        src_shape |-> NullShape]
  ELSE IF shape_dest.element_type \notin BufferTypes
  THEN [error |-> TypeUnsupported, dest_data |-> dest_data,
        src_shape |-> NullShape]
  ELSE TensorToBuffer(tensor, shape_dest, dest_data, size_dest, hw_type,
                      ScalarCType(tensor.scalar_type), shape_dest.element_type,
                      hardware_concurrency, min_thread_elements)

\* A plausible slip: the shape of a literal made without a shape is given
\* the primitive CreateComputationShapeFromTensor would give it.
GetTensorLiteral_DevicePrimitive(tensor, shape, hw_type, hardware_concurrency, min_thread_elements) ==
  LET computed_shape ==
        MakeSwiftTensorLayout(tensor.shape,
                              MakeXlaPrimitiveType(tensor.scalar_type, hw_type,
                                                   UseBF16, Use32BitLong))
      literal_shape == IF shape = NullShape THEN computed_shape ELSE shape
      populated ==
        PopulateTensorBuffer(tensor, literal_shape,
                             NewBuffer(ElementsIn(literal_shape)),
                             ElementsIn(literal_shape)
                               * SizeOf(literal_shape.element_type),
                             hw_type, hardware_concurrency, min_thread_elements)
  IN [error |-> populated.error, shape |-> literal_shape,
      data |-> populated.dest_data, src_shape |-> populated.src_shape]

\* GetTensorLiteral; hw_type is GetDeviceOrCurrent(device).hw_type.  The
\* result is the literal (shape, data) and, beside it, the source shape its
\* population built.
GetTensorLiteral(tensor, shape, hw_type, hardware_concurrency, min_thread_elements) ==
  LET computed_shape ==
        MakeSwiftTensorLayout(tensor.shape,
                              XlaTypeFromTensorType(tensor.scalar_type, hw_type))
      literal_shape == IF shape = NullShape THEN computed_shape ELSE shape
      populated ==
        PopulateTensorBuffer(tensor, literal_shape,
                             NewBuffer(ElementsIn(literal_shape)),
                             ElementsIn(literal_shape)
                               * SizeOf(literal_shape.element_type),
                             hw_type, hardware_concurrency, min_thread_elements)
  IN [error |-> populated.error, shape |-> literal_shape,
      data |-> populated.dest_data, src_shape |-> populated.src_shape]

\* XlaLiteralToTensor
XlaLiteralToTensor(literal, atype, SType, DType, hardware_concurrency, min_thread_elements) ==
  LET swift_shape == MakeSwiftTensorLayout(literal.shape.dimensions,
                                           literal.shape.element_type)
      total_elements == ElementsIn(swift_shape)
      copied == CopyTensors(literal.data, literal.shape,
                            NewBuffer(total_elements),
                            total_elements * SizeOf(DType), swift_shape,
                            SType, DType, hardware_concurrency,
                            min_thread_elements)
  IN [error |-> copied.error, scalar_type |-> atype,
      shape |-> literal.shape.dimensions, data |-> copied.dest_data]

\* MakeTensorFromXlaLiteral and XlaLiteralToTensorHelper: the two dispatch
\* switches.
MakeTensorFromXlaLiteral(literal, dest_element_type, hardware_concurrency, min_thread_elements) ==
  IF literal.shape.element_type \notin BufferTypes
  THEN [error |-> ShapeUnsupported, scalar_type |-> dest_element_type,
        shape |-> EmptyArr, data |-> EmptyArr]
  ELSE IF dest_element_type \notin SupportedScalarTypes
  THEN [error |-> TypeUnsupported, scalar_type |-> dest_element_type,
        shape |-> EmptyArr, data |-> EmptyArr]
  ELSE XlaLiteralToTensor(literal, dest_element_type, literal.shape.element_type,
                          ScalarCType(dest_element_type), hardware_concurrency,
                          min_thread_elements)

\* The contents of a host tensor of a scalar kind: values of the kind,
\* among them ones a narrower type cannot hold (16777217 for Double).
TensorValue(scalar_type, o) ==
  CASE scalar_type = "Bool" -> 2 * (o % 2)
    [] scalar_type = "Byte" -> 2 * (200 + o)
    [] scalar_type = "Char" -> 2 * (o - 100)
    [] scalar_type = "Short" -> 2 * (o - 1000)
    [] scalar_type = "Int" -> 2 * (70000 + o)
    [] scalar_type = "Long" -> 2 * (100000000 + o)
    [] scalar_type = "Float" -> 2 * o + 3
    [] scalar_type = "Double" -> 2 * (16777217 + o)
    [] scalar_type = "BFloat16" -> 2 * o + 3

HostTensor(scalar_type, dimensions) ==
  [scalar_type |-> scalar_type, shape |-> dimensions,
   data |-> [o \in 0..(Multiply(dimensions) - 1) |-> TensorValue(scalar_type, o)]]

InitLiteral ==
  /\ \E k \in SupportedScalarTypes, hw \in DeviceTypes :
       \E r \in 0..MaxRank :
         \E d \in DimensionLists(r) :
           lt = [pc |-> "tensor", tensor |-> HostTensor(k, d), hw_type |-> hw]
  /\ env \in [XLA_USE_BF16 : {"unset", "true"},
               XLA_USE_32BIT_LONG : {"unset", "true"}]
  /\ statics = [use_fp16 |-> [init |-> FALSE, value |-> FALSE],
                use_32bit_long |-> [init |-> FALSE, value |-> FALSE]]
  /\ getenv_calls = [XLA_USE_BF16 |-> 0, XLA_USE_32BIT_LONG |-> 0]
  /\ tm = NoCall
  /\ CopyIdle
  /\ ShapesIdle
  /\ TransferIdle
  /\ EngineIdle

\* GetTensorLiteral(tensor, nullptr, device)
CallGetTensorLiteralNull ==
  /\ lt.pc = "tensor"
  /\ \E hc \in {0, MaxHardwareConcurrency} :
       lt' = [pc |-> "literal", tensor |-> lt.tensor, hw_type |-> lt.hw_type,
              null_shape |-> TRUE,
              literal |-> GetTensorLiteral(lt.tensor, NullShape, lt.hw_type, hc,
                                           kMinThreadElements)]

\* GetTensorLiteral(tensor, &shape, device) with a shape of the tensor's
\* dimensions, the device's element type and any layout.
CallGetTensorLiteralShape ==
  /\ lt.pc = "tensor"
  /\ \E m \in Perms(Size(lt.tensor.shape)) :
       \E hc \in {0, MaxHardwareConcurrency} :
         \E mte \in {ScaledMinThreadElements, kMinThreadElements} :
           lt' = [pc |-> "literal", tensor |-> lt.tensor, hw_type |-> lt.hw_type,
                  null_shape |-> FALSE,
                  literal |->
                    GetTensorLiteral(lt.tensor,
                                     ArrayShape(XlaTypeFromTensorType(
                                                  lt.tensor.scalar_type,
                                                  lt.hw_type),
                                                lt.tensor.shape, m),
                                     lt.hw_type, hc, mte)]

\* MakeTensorFromXlaLiteral(literal, K) with the tensor's own scalar kind.
CallMakeTensorFromXlaLiteral ==
  /\ lt.pc = "literal"
  /\ lt.literal.error = "none"
  /\ \E hc \in {0, MaxHardwareConcurrency} :
       \E mte \in {ScaledMinThreadElements, kMinThreadElements} :
         lt' = [pc |-> "made", tensor |-> lt.tensor, hw_type |-> lt.hw_type,
                null_shape |-> lt.null_shape, literal |-> lt.literal,
                made |-> MakeTensorFromXlaLiteral(lt.literal,
                                                  lt.tensor.scalar_type, hc, mte)]

NextLiteral ==
  \/ /\ \/ CallGetTensorLiteralNull
        \/ CallGetTensorLiteralShape
        \/ CallMakeTensorFromXlaLiteral
     /\ UNCHANGED <<copy_vars, types_vars, sh, td, eng>>

SpecLiteral == InitLiteral /\ [][NextLiteral]_vars

\* C8: on a non-TPU device with BF16Mode off, the tensor made of the literal
\* GetTensorLiteral made of t with a null shape has t's scalar kind,
\* dimensions and contents.
C8_LiteralRoundTrip ==
  (lt.pc = "made" /\ lt.null_shape /\ lt.hw_type # "TPU" /\ ~UseBF16) =>
    /\ lt.made.error = "none"
    /\ lt.made.scalar_type = lt.tensor.scalar_type
    /\ lt.made.shape = lt.tensor.shape
    /\ lt.made.data = lt.tensor.data

\* C8 witness: a Double tensor of shape [2,3] on GPU came back unchanged
\* through an F64 literal.
C8_Witness ==
  /\ lt.pc = "made"
  /\ lt.null_shape
  /\ lt.hw_type = "GPU"
  /\ ~UseBF16
  /\ lt.tensor.scalar_type = "Double"
  /\ lt.tensor.shape = Arr(<<2, 3>>)
  /\ lt.literal.shape.element_type = "F64"
  /\ lt.made.data = lt.tensor.data
  /\ lt.made.data[0] = 2 * 16777217

\* The primitive type of a host tensor's elements on a device: the raw type
\* of the scalar kind, but F32 for a Double on TPU.
HostPrimitiveTable(k, hw) ==
  CASE k = "Double" -> IF hw = "TPU" THEN "F32" ELSE "F64"
    [] k = "Float" -> "F32"
    [] k = "BFloat16" -> "BF16"
    [] k = "Bool" -> "PRED"
    [] k = "Byte" -> "U8"
    [] k = "Char" -> "S8"
    [] k = "Short" -> "S16"
    [] k = "Int" -> "S32"
    [] k = "Long" -> "S64"

\* The cases in which the device promotion leaves the host primitive alone.
PromotionIsIdle(k, hw, bf16_mode, long32_mode) ==
  /\ ~(bf16_mode /\ k \in {"Float", "Double"})
  /\ ~(long32_mode /\ k = "Long")
  /\ ~(hw = "TPU" /\ k \in {"Byte", "Char", "Short"})

\* C11 as stated: the literal GetTensorLiteral allocates for a null shape has
\* the element primitive MakeXlaPrimitiveType(scalar type, device), for every
\* scalar kind, device type and toggle combination.
C11_LiteralHasDevicePrimitive ==
  (lt.pc \in {"literal", "made"} /\ lt.null_shape) =>
    lt.literal.shape.element_type
      = MakeXlaPrimitiveType(lt.tensor.scalar_type, lt.hw_type, UseBF16,
                             Use32BitLong)

\* C11 as amended: the literal GetTensorLiteral allocates for a null shape
\* has the host primitive of the tensor's scalar kind (the raw type, F32 for
\* a Double on TPU) whatever the toggles are, and that is the primitive
\* MakeXlaPrimitiveType gives exactly when the promotion is idle.
C11_LiteralHasHostPrimitive ==
  (lt.pc \in {"literal", "made"} /\ lt.null_shape) =>
    /\ lt.literal.shape.element_type
         = HostPrimitiveTable(lt.tensor.scalar_type, lt.hw_type)
    /\ (lt.literal.shape.element_type
          = MakeXlaPrimitiveType(lt.tensor.scalar_type, lt.hw_type, UseBF16,
                                 Use32BitLong))
       <=> PromotionIsIdle(lt.tensor.scalar_type, lt.hw_type, UseBF16,
                           Use32BitLong)

\* C11 witness: with BF16Mode on, a Double tensor on CPU was made an F64
\* literal.
C11_Witness ==
  /\ lt.pc = "literal"
  /\ lt.null_shape
  /\ lt.tensor.scalar_type = "Double"
  /\ lt.hw_type = "CPU"
  /\ UseBF16
  /\ lt.literal.error = "none"
  /\ lt.literal.shape.element_type = "F64"

\* C20 as stated: the source shape TensorToBuffer builds for the host tensor
\* has element type MakeXlaPrimitiveType(scalar type, device), for every
\* scalar kind, device type and toggle combination.
C20_SourceHasDevicePrimitive ==
  (lt.pc \in {"literal", "made"} /\ lt.literal.error = "none") =>
    lt.literal.src_shape.element_type
      = MakeXlaPrimitiveType(lt.tensor.scalar_type, lt.hw_type, UseBF16,
                             Use32BitLong)

\* C20 as amended: the source shape TensorToBuffer builds has the host
\* primitive of the tensor's scalar kind (the raw type, F32 for a Double on
\* TPU) as its element type, whatever the toggles are.
C20_SourceHasHostPrimitive ==
  (lt.pc \in {"literal", "made"} /\ lt.literal.error = "none") =>
    lt.literal.src_shape.element_type
      = HostPrimitiveTable(lt.tensor.scalar_type, lt.hw_type)

\* C20 witness: a Byte tensor of shape [3,2] was written on TPU into a
\* buffer of a given shape; its source shape was a U8 shape.
C20_Witness ==
  /\ lt.pc = "literal"
  /\ ~lt.null_shape
  /\ lt.tensor.scalar_type = "Byte"
  /\ lt.tensor.shape = Arr(<<3, 2>>)
  /\ lt.hw_type = "TPU"
  /\ lt.literal.error = "none"
  /\ lt.literal.src_shape.element_type = "U8"
  /\ lt.literal.data # NewBuffer(6)


(***************************************************************************)
(* CreateTensorsData (specification SpecTransfer).                         *)
(***************************************************************************)
\* The longest tensors and devices vectors of a call.
MaxSources == 2

\* Device strings, and the Device the constructor parses out of one.
DeviceStrings == {"CPU:0", "GPU:0", "TPU:0", "REMOTE_TPU:0"}

ParseDevice(device_string) ==
  CASE device_string = "CPU:0" -> [hw_type |-> "CPU", ordinal |-> 0]
    [] device_string = "GPU:0" -> [hw_type |-> "GPU", ordinal |-> 0]
    [] device_string = "TPU:0" -> [hw_type |-> "TPU", ordinal |-> 0]
    [] device_string = "REMOTE_TPU:0" -> [hw_type |-> "REMOTE_TPU", ordinal |-> 0]

\* MakeArrayShapeFromDimensions: the device's layout of an array; the only
\* layout there is for the tensors of rank 0 and 1 this specification uses.
MakeArrayShapeFromDimensions(dimensions, type, hw_type) ==
  ArrayShape(type, dimensions,
             [i \in DOMAIN dimensions |-> Size(dimensions) - 1 - i])

\* CreateComputationShapeFromTensor
CreateComputationShapeFromTensor(tensor, hw_type, use_bf16, use_32bit_long) ==
  MakeArrayShapeFromDimensions(tensor.shape,
                               MakeXlaPrimitiveType(tensor.scalar_type, hw_type,
                                                    use_bf16, use_32bit_long),
                               hw_type)

\* The vectors of at most MaxSources elements of S, indexed from 0.
VectorsOf(S) == UNION {[0..(n - 1) -> S] : n \in 0..MaxSources}

\* The tensors a call uploads: a Double and an Int tensor of two elements.
TransferTensors == {HostTensor(k, Arr(<<2>>)) : k \in {"Double", "Int"}}

\* The stack slot of the loop-local `Device device`: whether an object lives
\* in it, and the last object constructed there.
NoDevice == [alive |-> FALSE, hw_type |-> "none", ordinal |-> 0]

\* PopulateTensorBuffer reads its device argument in XlaTypeFromTensorType,
\* and only in the Double case.
ReadsDevice(tensor) == tensor.scalar_type = "Double"

InitTransfer ==
  /\ \E ts \in VectorsOf(TransferTensors), ds \in VectorsOf(DeviceStrings) :
       td = [pc |-> "start", tensors |-> ts, devices |-> ds, i |-> 0,
             device |-> NoDevice, source_tensors |-> EmptyArr,
             invoked |-> [j \in {} |-> 0]]
  /\ CopyIdle
  /\ TypesIdle
  /\ ShapesIdle
  /\ LiteralIdle
  /\ EngineIdle

\* XLA_CHECK_EQ(tensors.size(), devices.size()) fails.
CreateTensorsDataFail ==
  /\ td.pc = "start"
  /\ Size(td.tensors) # Size(td.devices)
  /\ td' = [td EXCEPT !.pc = "failed"]
  /\ UNCHANGED <<statics, getenv_calls>>

\* The check passes and the loop is entered.
CreateTensorsDataEnter ==
  /\ td.pc = "start"
  /\ Size(td.tensors) = Size(td.devices)
  /\ td' = [td EXCEPT !.pc = "loop"]
  /\ UNCHANGED <<statics, getenv_calls>>

\* One turn of the loop: `device` is constructed, the shape is computed, the
\* populator is made (capturing i by value and everything else, `device`
\* included, by reference) and the source is emplaced; at the end of the
\* turn `device` is destroyed.
CreateTensorsDataLoop ==
  /\ td.pc = "loop"
  /\ td.i < Size(td.tensors)
  /\ LET device == ParseDevice(td.devices[td.i])
         shape == CreateComputationShapeFromTensor(td.tensors[td.i],
                                                   device.hw_type, UseBF16,
                                                   Use32BitLong)
         k == td.tensors[td.i].scalar_type
     IN /\ td' = [td EXCEPT
                    !.source_tensors =
                      PushBack(@, [shape |-> shape, device |-> td.devices[td.i],
                                   populate_fn |-> [i |-> td.i,
                                                    device |-> "&device"]]),
                    !.device = [alive |-> FALSE, hw_type |-> device.hw_type,
                                ordinal |-> device.ordinal],
                    !.i = @ + 1]
        /\ statics' = StaticsAfter(k \in {"Double", "Float"}, k = "Long")
        /\ getenv_calls' = GetEnvCallsAfter(k \in {"Double", "Float"}, k = "Long")

\* The loop is over: TransferToServer(source_tensors) is called.
CallTransferToServer ==
  /\ td.pc = "loop"
  /\ ~(td.i < Size(td.tensors))
  /\ td' = [td EXCEPT !.pc = "transfer"]
  /\ UNCHANGED <<statics, getenv_calls>>

\* The client invokes the populator of source j on a buffer of the source's
\* shape.  The populator passes tensors[i] and the captured reference to
\* `device` to PopulateTensorBuffer; where that reads the device and no
\* object lives in the slot, the value read is any device type.
InvokePopulateFn(j) ==
  /\ td.pc = "transfer"
  /\ j \in DOMAIN td.source_tensors
  /\ j \notin DOMAIN td.invoked
  /\ LET source == td.source_tensors[j]
         tensor == td.tensors[source.populate_fn.i]
         reads == ReadsDevice(tensor)
     IN \E hw \in (IF reads /\ ~td.device.alive THEN DeviceTypes
                   ELSE {td.device.hw_type}) :
          td' = [td EXCEPT
                   !.invoked =
                     [x \in DOMAIN @ \cup {j} |->
                        IF x # j THEN @[x]
                        ELSE [tensor |-> source.populate_fn.i,
                              device_read |-> reads,
                              device_alive |-> td.device.alive,
                              hw_type |-> hw,
                              populated |->
                                PopulateTensorBuffer(
                                  tensor, source.shape,
                                  NewBuffer(ElementsIn(source.shape)),
                                  ElementsIn(source.shape)
                                    * SizeOf(source.shape.element_type),
                                  hw, 0, kMinThreadElements)]]]
  /\ UNCHANGED <<statics, getenv_calls>>

\* TransferToServer returns the handles once every source is populated.
TransferToServerReturns ==
  /\ td.pc = "transfer"
  /\ DOMAIN td.invoked = DOMAIN td.source_tensors
  /\ td' = [td EXCEPT !.pc = "done"]
  /\ UNCHANGED <<statics, getenv_calls>>

NextTransfer ==
  \/ /\ \/ CreateTensorsDataFail
        \/ CreateTensorsDataEnter
        \/ CreateTensorsDataLoop
        \/ CallTransferToServer
        \/ \E j \in 0..(MaxSources - 1) : InvokePopulateFn(j)
        \/ TransferToServerReturns
     /\ UNCHANGED <<copy_vars, env, tm, sh, lt, eng>>

SpecTransfer == InitTransfer /\ [][NextTransfer]_vars

\* C13: CreateTensorsData fails when tensors and devices differ in length;
\* otherwise TransferToServer gets one source per tensor, in input order,
\* source i carrying devices[i]; and whenever the client invokes the
\* populator of source i, what the populator reads (tensor i and the Device
\* parsed from devices[i]) is alive and it populates with that device.
C13_SourcesAndLiveDevice ==
  /\ td.pc = "failed" => Size(td.tensors) # Size(td.devices)
  /\ td.pc \in {"loop", "transfer", "done"} =>
       Size(td.tensors) = Size(td.devices)
  /\ td.pc \in {"transfer", "done"} =>
       /\ Size(td.source_tensors) = Size(td.tensors)
       /\ \A j \in DOMAIN td.source_tensors :
            /\ td.source_tensors[j].device = td.devices[j]
            /\ td.source_tensors[j].populate_fn.i = j
  /\ td.pc \in {"transfer", "done"} =>
       \A j \in DOMAIN td.invoked :
         /\ td.invoked[j].tensor = j
         /\ td.invoked[j].device_read =>
              /\ td.invoked[j].device_alive
              /\ td.invoked[j].hw_type = ParseDevice(td.devices[j]).hw_type


(***************************************************************************)
(* The functions of the copy engine (specification SpecEngine).            *)
(***************************************************************************)
\* Dimension sizes: small ones, ones more than kMinorDimScale apart, and
\* one with kMinThreadElements elements.  None is zero: CopyTensors calls
\* the two functions on the strided path only, with total_elements > 0.
EngineSizes == {1, 2, 3, 9, 10, kMinThreadElements}

\* Dimension lists of rank r, with one large dimension at most.
EngineDimensionLists(r) ==
  {d \in [0..(r - 1) -> EngineSizes] :
     \A i, j \in DOMAIN d :
       (d[i] = kMinThreadElements /\ d[j] = kMinThreadElements) => i = j}

InitEngine ==
  /\ \E r \in 0..MaxRank :
       \E d \in EngineDimensionLists(r) : eng = [fn |-> "none", dimensions |-> d]
  /\ CopyIdle
  /\ TypesIdle
  /\ ShapesIdle
  /\ LiteralIdle
  /\ TransferIdle

\* GetIterationDimensions(shape): the shape has rank >= 1 and a permutation
\* layout.
CallGetIterationDimensions ==
  /\ eng.fn = "none"
  /\ Size(eng.dimensions) >= 1
  /\ \E m \in Perms(Size(eng.dimensions)) :
       eng' = [fn |-> "GetIterationDimensions", dimensions |-> eng.dimensions,
               minor_to_major |-> m,
               iter_dims |->
                 GetIterationDimensions(ArrayShape("F32", eng.dimensions, m))]

\* CreateCopyPartitions(dimensions, strided_copy_dimension): the dimension
\* list has rank >= 2.
CallCreateCopyPartitions ==
  /\ eng.fn = "none"
  /\ Size(eng.dimensions) >= 2
  /\ \E inner \in DOMAIN eng.dimensions :
       \E hc \in 0..MaxHardwareConcurrency :
         eng' = [fn |-> "CreateCopyPartitions", dimensions |-> eng.dimensions,
                 strided_copy_dimension |-> inner,
                 hardware_concurrency |-> hc,
                 parts |-> CreateCopyPartitions(eng.dimensions, inner, hc,
                                                kMinThreadElements)]

NextEngine ==
  \/ /\ \/ CallGetIterationDimensions
        \/ CallCreateCopyPartitions
     /\ UNCHANGED <<copy_vars, types_vars, sh, lt, td>>

SpecEngine == InitEngine /\ [][NextEngine]_vars

\* The position an inner choice ends at when, from position i on, a
\* dimension replaces the choice at position index only if its size exceeds
\* 8 times the size of the dimension chosen so far.
RECURSIVE EightTimesCurrent(_, _, _, _)
EightTimesCurrent(d, m, i, index) ==
  IF i >= Size(m) THEN index
  ELSE IF d[m[i]] > 8 * d[m[index]] THEN EightTimesCurrent(d, m, i + 1, i)
       ELSE EightTimesCurrent(d, m, i + 1, index)

\* The list m with the entries at positions 0 and index exchanged, said
\* entry by entry.
FrontSwapped(result, m, index) ==
  /\ DOMAIN result = DOMAIN m
  /\ result[0] = m[index]
  /\ result[index] = m[0]
  /\ \A i \in DOMAIN m : i \notin {0, index} => result[i] = m[i]

\* C14 as stated: GetIterationDimensions returns minor_to_major with the
\* front exchanged with the inner choice, which starts as the most minor
\* dimension and is replaced by a later dimension only if that one's size
\* exceeds 8 times the size of the current choice, also after a replacement.
C14_EightTimesCurrentChoice ==
  eng.fn = "GetIterationDimensions" =>
    FrontSwapped(eng.iter_dims, eng.minor_to_major,
                 EightTimesCurrent(eng.dimensions, eng.minor_to_major, 1, 0))

\* C14 as amended: GetIterationDimensions returns minor_to_major with the
\* front exchanged with the inner choice; the choice is the most minor
\* dimension unless some later dimension's size exceeds 8 times the most
\* minor one's, and then it is the largest later dimension (the first of
\* them in minor_to_major order): after a replacement a dimension replaces
\* the choice as soon as it is larger than it.
C14_LargestAboveEightTimesMinor ==
  eng.fn = "GetIterationDimensions" =>
    LET d == eng.dimensions
        m == eng.minor_to_major
        above == {i \in DOMAIN m : i >= 1 /\ d[m[i]] > 8 * d[m[0]]}
        index == IF above = {} THEN 0
                 ELSE CHOOSE i \in above :
                        /\ \A j \in above : d[m[j]] <= d[m[i]]
                        /\ \A j \in above : d[m[j]] = d[m[i]] => i <= j
    IN /\ FrontSwapped(eng.iter_dims, m, index)
       /\ {eng.iter_dims[i] : i \in DOMAIN m} = DOMAIN d

\* C14 witness: sizes 1, 9 and 10 in minor_to_major order; the inner
\* dimension is the one of size 10, which is not 8 times 9.
C14_Witness ==
  /\ eng.fn = "GetIterationDimensions"
  /\ eng.dimensions = Arr(<<10, 1, 9>>)
  /\ eng.minor_to_major = Arr(<<1, 2, 0>>)
  /\ eng.iter_dims = Arr(<<0, 2, 1>>)

\* C15: for a dimension list of rank >= 2 without zero sizes and any inner
\* dimension, CreateCopyPartitions splits a dimension other than the inner
\* one, the largest such, and returns at least one partition; on the split
\* dimension the ranges [base, limit) are non-empty and consecutive from 0
\* to the dimension's size; on every other dimension base is 0 and limit
\* the full size.
C15_PartitionsTileSplitDimension ==
  eng.fn = "CreateCopyPartitions" =>
    LET d == eng.dimensions
        inner == eng.strided_copy_dimension
        ps == eng.parts
        last == Size(ps) - 1
    IN \E split \in DOMAIN d \ {inner} :
         /\ \A j \in DOMAIN d \ {inner} : d[j] <= d[split]
         /\ Size(ps) >= 1
         /\ ps[0].base[split] = 0
         /\ ps[last].limit[split] = d[split]
         /\ \A k \in DOMAIN ps : ps[k].base[split] < ps[k].limit[split]
         /\ \A k \in DOMAIN ps :
              k < last => ps[k].limit[split] = ps[k + 1].base[split]
         /\ \A k \in DOMAIN ps :
              \A j \in DOMAIN d \ {split} :
                ps[k].base[j] = 0 /\ ps[k].limit[j] = d[j]

\* C15 witness: [3, 100000, 10] with inner dimension 1 on 4 cores is split
\* on dimension 2 in two partitions of 5.
C15_Witness ==
  /\ eng.fn = "CreateCopyPartitions"
  /\ eng.dimensions = Arr(<<3, kMinThreadElements, 10>>)
  /\ eng.strided_copy_dimension = 1
  /\ eng.hardware_concurrency = 4
  /\ Size(eng.parts) = 2
  /\ eng.parts[0].limit = Arr(<<3, kMinThreadElements, 5>>)
  /\ eng.parts[1].base = Arr(<<0, 0, 5>>)

\* C16: CreateCopyPartitions never returns more than
\* max_parts = max(1, hardware_concurrency / 2) partitions.
C16_AtMostMaxParts ==
  eng.fn = "CreateCopyPartitions" =>
    Size(eng.parts) <= Max2(1, eng.hardware_concurrency \div 2)

====
